---------------------------- MODULE Spec2Model ----------------------------
(***************************************************************************)
(* Model of the migration service of server/routes.ts: the pattern matcher *)
(* (matchesPattern, isSystemTable), the migration executor                 *)
(* (POST /api/quick-migrate), the table discovery of every endpoint, the   *)
(* dry-run planner, the DDL the executor, the planner and the exported     *)
(* script build, the exported script's table loop, request validation      *)
(* (shared/schema.ts), the steps of the dashboard                          *)
(* (client/src/pages/dashboard.tsx), and the database manager endpoints    *)
(* (/api/db/tables, structure, data, row, backup, query) with two          *)
(* quick-migrate requests interleaved.  Strings are sequences of           *)
(* one-character strings, so that startsWith, replace and the regular      *)
(* expression engine can be computed character by character.               *)
(***************************************************************************)
EXTENDS Integers, Sequences, FiniteSets, TLC

VARIABLES
  mPattern,      \* matcher: the pattern argument of matchesPattern
  mName,         \* matcher: the tableName argument of matchesPattern
  mDone,         \* matcher: the call has returned
  mResult,       \* matcher: the value it returned
  hasOldDb,      \* process.env.DATABASE_URL_OLD is set
  hasNewDb,      \* process.env.DATABASE_URL_NEW is set
  tablePattern,  \* req.body.tablePattern
  selectedTables,\* req.body.selectedTables
  tableDataFlags,\* req.body.tableDataFlags
  pc,            \* the await the quick-migrate handler is at
  tables,        \* the table names the information_schema.tables query returned
  tablesToMigrate,
  idx,           \* position of tableName in tablesToMigrate
  data,          \* the rows read from the source table
  rowIdx,        \* position of row in data
  rowsCopied,
  results,
  response,      \* what the handler answered
  dest,          \* the destination database: table name -> table
  trace,         \* every statement sent and every outcome recorded, in order
  path,          \* discovery: the endpoint that listed the tables
  returned,      \* discovery: the table names it returned, planned or dumped
  srcColumns,    \* the rows of information_schema.columns of the source
  plan,          \* dry run: the plan of the latest response
  dryRuns,       \* dry run: the requests answered so far
  dryStatus,     \* dry run: the HTTP status of the latest response
  execDdl,       \* the DDL the executor builds for a table
  planDdl,       \* the DDL the dry-run plan lists for it
  scriptDdl,     \* the DDL the exported script builds for it
  sResult,       \* script: what its table filter did with mName
  sourceTx,      \* script: the transaction of source_conn
  destTx,        \* script: the transaction of dest_conn
  destWork,      \* script: the destination as dest_conn's transaction sees it
  step,          \* dashboard: the step shown
  planSeen,      \* dashboard: the dryrun step was shown since the last analysis
  inFlight,      \* dashboard: the handlers awaiting their response
  useEnvVars,    \* dashboard: the useEnvVars state
  reqSource,     \* request: req.body.source
  reqDestination,\* request: req.body.destination
  dbReq,         \* database manager: the request received
  dbCatalog,     \* database manager: what the database's catalogue holds
  dbSent,        \* database manager: the statements sent, in order
  dbStatus,      \* database manager: the HTTP status answered (0: none yet)
  dbBody,        \* database manager: the body answered
  runs           \* concurrent runs: where each quick-migrate request is

matcherVars == <<mPattern, mName, mDone, mResult>>

migrateVars == <<hasOldDb, hasNewDb, tablePattern, selectedTables, tableDataFlags,
                 pc, tables, tablesToMigrate, idx, data, rowIdx, rowsCopied, results,
                 response, dest, trace>>

discoveryVars == <<path, returned>>

\* the variables of the parts added to the matcher and the executor
dryRunVars == <<srcColumns, plan, dryRuns, dryStatus>>

ddlVars == <<execDdl, planDdl, scriptDdl>>

scriptVars == <<sResult, sourceTx, destTx, destWork>>

uiVars == <<step, planSeen, inFlight, useEnvVars>>

requestVars == <<reqSource, reqDestination>>

managerVars == <<dbReq, dbCatalog, dbSent, dbStatus, dbBody>>

extVars == <<discoveryVars, dryRunVars, ddlVars, scriptVars, uiVars, requestVars,
             managerVars, runs>>

vars == <<mPattern, mName, mDone, mResult,
          hasOldDb, hasNewDb, tablePattern, selectedTables, tableDataFlags,
          pc, tables, tablesToMigrate, idx, data, rowIdx, rowsCopied, results,
          response, dest, trace,
          path, returned,
          srcColumns, plan, dryRuns, dryStatus,
          execDdl, planDdl, scriptDdl,
          sResult, sourceTx, destTx, destWork,
          step, planSeen, inFlight, useEnvVars,
          reqSource, reqDestination,
          dbReq, dbCatalog, dbSent, dbStatus, dbBody, runs>>

(***************************************************************************)
(* Bounds of the model.                                                    *)
(***************************************************************************)
MaxPatLen == 3
MaxNameLen == 2
MaxTables == 2
MaxRows == 2
MaxCols == 2
MaxDryRuns == 2
MaxMargin == 2

\* the value of an absent (undefined) optional argument
Undefined == <<"undefined">>

SeqsUpTo(S, n) == UNION {[1..k -> S] : k \in 0..n}

\* the elements of a sequence
Range(seq) == {seq[i] : i \in DOMAIN seq}

\* characters a pattern is built from: letters, the two LIKE wildcards, one
\* character of the escape class and the two regex quantifiers outside it
PatternChars == {"a", "A", "%", "_", ".", "*", "?"}

\* characters a table name is built from (a quoted PostgreSQL identifier may
\* hold any character except NUL)
NameChars == {"a", "A", ".", "*", "\n"}

Patterns == SeqsUpTo(PatternChars, MaxPatLen) \cup {Undefined}
Names == SeqsUpTo(NameChars, MaxNameLen)

(***************************************************************************)
(* String helpers.                                                         *)
(***************************************************************************)
\* String.prototype.startsWith
startsWith(s, prefix) ==
  /\ Len(prefix) <= Len(s)
  /\ \A i \in 1..Len(prefix) : s[i] = prefix[i]

RECURSIVE FlatMap(_, _)
\* s.replace(/./g, f): every character c replaced by the sequence f[c]
FlatMap(f, s) ==
  IF s = <<>> THEN <<>> ELSE f[Head(s)] \o FlatMap(f, Tail(s))

(***************************************************************************)
(* isSystemTable.                                                          *)
(***************************************************************************)
isSystemTable(tableName) ==
  \/ startsWith(tableName, <<"p", "g", "_">>)
  \/ startsWith(tableName, <<"i", "n", "f", "o", "r", "m", "a", "t", "i", "o", "n",
                             "_", "s", "c", "h", "e", "m", "a">>)

(***************************************************************************)
(* matchesPattern: escape, substitute the wildcards, compile, test.        *)
(***************************************************************************)
\* the character class of /[.+^${}()|[\]\\]/g
EscapeClass == {".", "+", "^", "$", "{", "}", "(", ")", "|", "[", "]", "\\"}

\* pattern.replace(/[.+^${}()|[\]\\]/g, '\\$&')
escapeRegex(pattern) ==
  FlatMap([c \in {pattern[i] : i \in 1..Len(pattern)} |->
             IF c \in EscapeClass THEN <<"\\", c>> ELSE <<c>>], pattern)

\* escaped.replace(/%/g, '.*').replace(/_/g, '.')
substituteWildcards(escaped) ==
  FlatMap([c \in {escaped[i] : i \in 1..Len(escaped)} |->
             IF c = "%" THEN <<".", "*">>
             ELSE IF c = "_" THEN <<".">> ELSE <<c>>], escaped)

\* what new RegExp(...) throws on a malformed source
SyntaxError == [ok |-> FALSE, terms |-> <<>>]

\* the characters that quantify the preceding atom
Quantifiers == {"*", "?"}

RECURSIVE ParseTerms(_, _)
\* The terms of a regex source from position i on: [ok |-> TRUE, terms |-> a
\* sequence of [kind, ch, quant] records], or SyntaxError.  An atom is `.`, an escaped
\* character or a plain character; it may be followed by one quantifier,
\* itself optionally followed by the lazy mark `?`.  A quantifier with no atom
\* before it (at the start, after ^, or after another quantifier) is
\* "Nothing to repeat".
ParseTerms(src, i) ==
  IF i > Len(src) THEN [ok |-> TRUE, terms |-> <<>>]
  ELSE IF src[i] \in Quantifiers THEN SyntaxError
  ELSE IF src[i] = "\\" /\ i = Len(src) THEN SyntaxError
  ELSE
    LET escapedAtom == src[i] = "\\"
        atomEnd == IF escapedAtom THEN i + 1 ELSE i
        kind == IF ~escapedAtom /\ src[i] = "." THEN "any" ELSE "lit"
        ch == src[atomEnd]
        hasQuant == atomEnd < Len(src) /\ src[atomEnd + 1] \in Quantifiers
        quant == IF ~hasQuant THEN "one"
                 ELSE IF src[atomEnd + 1] = "*" THEN "star" ELSE "opt"
        quantEnd == IF hasQuant THEN atomEnd + 1 ELSE atomEnd
        lazy == hasQuant /\ quantEnd < Len(src) /\ src[quantEnd + 1] = "?"
        termEnd == IF lazy THEN quantEnd + 1 ELSE quantEnd
        rest == ParseTerms(src, termEnd + 1)
    IN IF ~rest.ok THEN SyntaxError
       ELSE [ok |-> TRUE,
             terms |-> <<[kind |-> kind, ch |-> ch, quant |-> quant]>> \o rest.terms]

\* new RegExp(`^${regexPattern}$`, 'i'): the compiled terms between the two
\* anchors, or SyntaxError
RegExpNew(regexPattern) == ParseTerms(regexPattern, 1)

LowerCase == <<"a", "b", "c", "d", "e", "f", "g", "h", "i", "j", "k", "l", "m",
               "n", "o", "p", "q", "r", "s", "t", "u", "v", "w", "x", "y", "z">>
UpperCase == <<"A", "B", "C", "D", "E", "F", "G", "H", "I", "J", "K", "L", "M",
               "N", "O", "P", "Q", "R", "S", "T", "U", "V", "W", "X", "Y", "Z">>

\* the case folding of the 'i' flag
Canonicalize(c) ==
  IF \E i \in 1..Len(LowerCase) : LowerCase[i] = c
  THEN UpperCase[CHOOSE i \in 1..Len(LowerCase) : LowerCase[i] = c]
  ELSE c

\* the characters `.` does not match (no 's' flag)
LineTerminators == {"\n", "\r"}

\* one atom against one character
AtomMatches(term, c) ==
  IF term.kind = "any" THEN c \notin LineTerminators
  ELSE Canonicalize(term.ch) = Canonicalize(c)

RECURSIVE MatchFrom(_, _, _, _)
\* terms k.. match exactly the characters j.. of s (both anchors)
MatchFrom(terms, k, s, j) ==
  IF k > Len(terms) THEN j > Len(s)
  ELSE
    LET t == terms[k]
        here == j <= Len(s) /\ AtomMatches(t, s[j])
    IN CASE t.quant = "one"  -> here /\ MatchFrom(terms, k + 1, s, j + 1)
         [] t.quant = "opt"  -> \/ MatchFrom(terms, k + 1, s, j)
                                \/ here /\ MatchFrom(terms, k + 1, s, j + 1)
         [] t.quant = "star" -> \/ MatchFrom(terms, k + 1, s, j)
                                \/ here /\ MatchFrom(terms, k, s, j + 1)

\* regex.test(tableName)
RegExpTest(regex, tableName) == MatchFrom(regex.terms, 1, tableName, 1)

\* matchesPattern with a catch block that rejects instead of accepting
matchesPatternFailClosed(tableName, pattern) ==
  IF pattern = Undefined \/ pattern = <<>> THEN TRUE
  ELSE
    LET regex == RegExpNew(substituteWildcards(escapeRegex(pattern)))
    IN IF ~regex.ok THEN FALSE
       ELSE RegExpTest(regex, tableName)

\* matchesPattern(tableName, pattern)
matchesPattern(tableName, pattern) ==
  IF pattern = Undefined \/ pattern = <<>> THEN TRUE
  ELSE
    LET escaped == escapeRegex(pattern)
        regexPattern == substituteWildcards(escaped)
        regex == RegExpNew(regexPattern)
    IN IF ~regex.ok THEN TRUE
       ELSE RegExpTest(regex, tableName)

(***************************************************************************)
(* POST /api/quick-migrate: the request, the two databases and the         *)
(* handler, one action per await.                                          *)
(***************************************************************************)
Orders == <<"o", "r", "d", "e", "r", "s">>
Users == <<"u", "s", "e", "r", "s">>
Items == <<"i", "t", "e", "m", "s">>
PgStat == <<"p", "g", "_", "s", "t", "a", "t">>

\* the base tables schema public of the source database may hold
DbTableNames == {Orders, Users, Items, PgStat}

\* the rows the information_schema.tables query may return (no ORDER BY: any
\* order, no name twice)
DiscoveredLists ==
  {l \in SeqsUpTo(DbTableNames, MaxTables) :
     \A i, j \in 1..Len(l) : l[i] = l[j] => i = j}

\* the table patterns a request may carry
MigratePatterns ==
  {Undefined, <<"o", "r", "d", "%">>, <<"*">>}

\* req.body.selectedTables: absent, or an array of names
NoList == [defined |-> FALSE, items |-> {}]
SelectableNames == {Orders, Items, PgStat}
SelectedLists ==
  {NoList} \cup {[defined |-> TRUE, items |-> S] : S \in SUBSET SelectableNames}

\* req.body.tableDataFlags: absent, or an object name -> flag; a name may have
\* no key in it
FlagNames == {Orders}
NoFlags == [defined |-> FALSE, flags |-> [n \in FlagNames |-> "absent"]]
DataFlags ==
  {NoFlags} \cup
  {[defined |-> TRUE, flags |-> f] : f \in [FlagNames -> {"true", "false", "absent"}]}

\* a table of the destination database
Absent == [exists |-> FALSE, rows |-> <<>>]
EmptyTable == [exists |-> TRUE, rows |-> <<>>]
\* a table left by an earlier migration, holding a row that is not in the source
OldTable == [exists |-> TRUE, rows |-> <<0>>]

\* the rows SELECT * returns for a table of n rows
SourceRows(n) == [i \in 1..n |-> i]

\* TablesToMigrate with the selected tables added to the filtered ones instead
\* of intersected with them
TablesToMigrateUnion(names, pattern, selected) ==
  LET Wanted(name) ==
        \/ ~isSystemTable(name) /\ matchesPattern(name, pattern)
        \/ selected.defined /\ name \in selected.items
  IN SelectSeq(names, Wanted)

\* tables.map(...).filter(!isSystemTable).filter(matchesPattern), then the
\* selectedTables filter
TablesToMigrate(names, pattern, selected) ==
  LET NotSystem(name) == ~isSystemTable(name)
      Matches(name) == matchesPattern(name, pattern)
      Selected(name) == name \in selected.items
      filtered == SelectSeq(SelectSeq(names, NotSystem), Matches)
  IN IF selected.defined /\ selected.items # {}
     THEN SelectSeq(filtered, Selected)
     ELSE filtered

\* tableDataFlags && tableDataFlags[tableName] !== false
shouldCopyData(flags, tableName) ==
  /\ flags.defined
  /\ (IF tableName \in DOMAIN flags.flags THEN flags.flags[tableName] ELSE "absent")
       # "false"

\* results.push({ table, status: 'success', rowsCopied })
SuccessOutcome(tableName, n) ==
  [table |-> tableName, status |-> "success", rowsCopied |-> n]

\* ErrorOutcome that also reports the rows copied before the failure
ErrorOutcomeWithTally(tableName, message) ==
  [table |-> tableName, status |-> "error", error |-> message,
   rowsCopied |-> rowsCopied]

\* results.push({ table, status: 'error', error: error.message })
ErrorOutcome(tableName, message) ==
  [table |-> tableName, status |-> "error", error |-> message]

\* res.json({ success: true, results })
OkResponse(res) == [status |-> 200, success |-> TRUE, results |-> res]
\* res.status(code).json({ error })
ErrorResponse(code) == [status |-> code, success |-> FALSE, results |-> <<>>]
NoResponse == [status |-> 0, success |-> FALSE, results |-> <<>>]

\* an entry of the trace: a statement sent to a database (n: the number of rows
\* it returned, or the row it inserts), or an outcome pushed to results
Statement(db, op, tableName, ok, n) ==
  [db |-> db, op |-> op, table |-> tableName, ok |-> ok, n |-> n]
Pushed(outcome) ==
  [db |-> "handler", op |-> "push", table |-> outcome.table,
   ok |-> outcome.status = "success",
   n |-> IF outcome.status = "success" THEN outcome.rowsCopied ELSE 0]

\* no call of matchesPattern is under way
MatcherIdle ==
  /\ mPattern = Undefined
  /\ mName = <<>>
  /\ mDone = FALSE
  /\ mResult = FALSE

\* no table discovery has run
DiscoveryIdle ==
  /\ path = "none"
  /\ returned = <<>>

\* no dry run has been asked for
DryRunIdle ==
  /\ srcColumns = {}
  /\ plan = <<>>
  /\ dryRuns = 0
  /\ dryStatus = 0

\* DDL not built yet
NoDdl == [built |-> FALSE, target |-> <<>>, clauses |-> <<>>, drop |-> <<>>,
          create |-> <<>>]

\* no DDL has been built
DdlIdle ==
  /\ execDdl = NoDdl
  /\ planDdl = NoDdl
  /\ scriptDdl = NoDdl

\* the exported script has not run
ScriptIdle ==
  /\ sResult = "pending"
  /\ sourceTx = "idle"
  /\ destTx = "idle"
  /\ destWork = [n \in DbTableNames |-> Absent]

\* the dashboard shows its first step
UiIdle ==
  /\ step = "connect"
  /\ planSeen = FALSE
  /\ inFlight = {}
  /\ useEnvVars = FALSE

\* a connection descriptor with no field
NoDescriptor ==
  [host |-> "absent", port |-> "absent", database |-> "absent", user |-> "absent",
   password |-> "absent", connectionString |-> "absent"]

\* no request with connection descriptors has been received
RequestIdle ==
  /\ reqSource = NoDescriptor
  /\ reqDestination = NoDescriptor

\* the database manager has received no request
ManagerIdle ==
  /\ dbReq = <<>>
  /\ dbCatalog = <<>>
  /\ dbSent = <<>>
  /\ dbStatus = 0
  /\ dbBody = <<>>

\* the parts added to the matcher and the executor are at rest
ExtIdle ==
  /\ DiscoveryIdle /\ DryRunIdle /\ DdlIdle /\ ScriptIdle /\ UiIdle /\ RequestIdle
  /\ ManagerIdle
  /\ runs = <<>>

\* the table of the current loop iteration
tableName == tablesToMigrate[idx]

MigrateIdle ==
  /\ hasOldDb = FALSE
  /\ hasNewDb = FALSE
  /\ tablePattern = Undefined
  /\ selectedTables = NoList
  /\ tableDataFlags = NoFlags
  /\ pc = "idle"
  /\ tables = <<>>
  /\ tablesToMigrate = <<>>
  /\ idx = 0
  /\ data = <<>>
  /\ rowIdx = 0
  /\ rowsCopied = 0
  /\ results = <<>>
  /\ response = NoResponse
  /\ dest = [n \in DbTableNames |-> Absent]
  /\ trace = <<>>

InitMigrate ==
  /\ hasOldDb \in BOOLEAN
  /\ hasNewDb \in BOOLEAN
  /\ tablePattern \in MigratePatterns
  /\ selectedTables \in SelectedLists
  /\ tableDataFlags \in DataFlags
  /\ pc = "start"
  /\ tables = <<>>
  /\ tablesToMigrate = <<>>
  /\ idx = 0
  /\ data = <<>>
  /\ rowIdx = 0
  /\ rowsCopied = 0
  /\ results = <<>>
  /\ response = NoResponse
  /\ dest \in {[n \in DbTableNames |-> Absent], [n \in DbTableNames |-> OldTable]}
  /\ trace = <<>>

\* the end of one loop iteration: the statements sent in this step, the outcome
\* pushed, then the next table or, after the last one, the response
EndTable(statements, outcome) ==
  /\ results' = Append(results, outcome)
  /\ trace' = trace \o statements \o <<Pushed(outcome)>>
  /\ data' = <<>>
  /\ rowIdx' = 0
  /\ rowsCopied' = 0
  /\ IF idx < Len(tablesToMigrate)
     THEN /\ pc' = "columns"
          /\ idx' = idx + 1
          /\ response' = response
     ELSE /\ pc' = "done"
          /\ idx' = idx
          /\ response' = OkResponse(results')

\* if (!sourceUrl || !destUrl) return res.status(400)
RejectUnconfigured ==
  /\ pc = "start"
  /\ ~(hasOldDb /\ hasNewDb)
  /\ pc' = "done"
  /\ response' = ErrorResponse(400)
  /\ UNCHANGED <<matcherVars, extVars>>
  /\ UNCHANGED <<hasOldDb, hasNewDb, tablePattern, selectedTables, tableDataFlags,
                 tables, tablesToMigrate, idx, data, rowIdx, rowsCopied, results, dest,
                 trace>>

\* the table query throws: the outer catch answers 500
DiscoverFails ==
  /\ pc = "start"
  /\ hasOldDb /\ hasNewDb
  /\ pc' = "done"
  /\ response' = ErrorResponse(500)
  /\ trace' = Append(trace, Statement("source", "tables", <<>>, FALSE, 0))
  /\ UNCHANGED <<matcherVars, extVars>>
  /\ UNCHANGED <<hasOldDb, hasNewDb, tablePattern, selectedTables, tableDataFlags,
                 tables, tablesToMigrate, idx, data, rowIdx, rowsCopied, results, dest>>

\* the table query answers; tablesToMigrate is computed; an empty list ends the
\* run at once
Discover ==
  /\ pc = "start"
  /\ hasOldDb /\ hasNewDb
  /\ tables' \in DiscoveredLists
  /\ tablesToMigrate' = TablesToMigrate(tables', tablePattern, selectedTables)
  /\ trace' = Append(trace, Statement("source", "tables", <<>>, TRUE, Len(tables')))
  /\ IF tablesToMigrate' = <<>>
     THEN /\ pc' = "done"
          /\ idx' = 0
          /\ response' = OkResponse(<<>>)
     ELSE /\ pc' = "columns"
          /\ idx' = 1
          /\ response' = response
  /\ UNCHANGED <<matcherVars, extVars>>
  /\ UNCHANGED <<hasOldDb, hasNewDb, tablePattern, selectedTables, tableDataFlags,
                 data, rowIdx, rowsCopied, results, dest>>

\* FetchColumns of a loop that never drops the destination table
FetchColumnsSkipsDrop ==
  /\ pc = "columns"
  /\ \/ /\ pc' = "create"
        /\ trace' = Append(trace, Statement("source", "columns", tableName, TRUE, 0))
        /\ UNCHANGED <<idx, data, rowIdx, rowsCopied, results, response>>
     \/ EndTable(<<Statement("source", "columns", tableName, FALSE, 0)>>,
                 ErrorOutcome(tableName, "columns"))
  /\ UNCHANGED <<matcherVars, extVars>>
  /\ UNCHANGED <<hasOldDb, hasNewDb, tablePattern, selectedTables, tableDataFlags,
                 tables, tablesToMigrate, dest>>

\* await sourceSql`SELECT column_name ... WHERE table_name = ${tableName}`
FetchColumns ==
  /\ pc = "columns"
  /\ \/ /\ pc' = "drop"
        /\ trace' = Append(trace, Statement("source", "columns", tableName, TRUE, 0))
        /\ UNCHANGED <<idx, data, rowIdx, rowsCopied, results, response>>
     \/ EndTable(<<Statement("source", "columns", tableName, FALSE, 0)>>,
                 ErrorOutcome(tableName, "columns"))
  /\ UNCHANGED <<matcherVars, extVars>>
  /\ UNCHANGED <<hasOldDb, hasNewDb, tablePattern, selectedTables, tableDataFlags,
                 tables, tablesToMigrate, dest>>

\* await destSql(`DROP TABLE IF EXISTS "${tableName}" CASCADE`)
DropTable ==
  /\ pc = "drop"
  /\ \/ /\ pc' = "create"
        /\ dest' = [dest EXCEPT ![tableName] = Absent]
        /\ trace' = Append(trace, Statement("dest", "DROP", tableName, TRUE, 0))
        /\ UNCHANGED <<idx, data, rowIdx, rowsCopied, results, response>>
     \/ /\ EndTable(<<Statement("dest", "DROP", tableName, FALSE, 0)>>,
                    ErrorOutcome(tableName, "DROP"))
        /\ UNCHANGED dest
  /\ UNCHANGED <<matcherVars, extVars>>
  /\ UNCHANGED <<hasOldDb, hasNewDb, tablePattern, selectedTables, tableDataFlags,
                 tables, tablesToMigrate>>

\* CreateTable without the per-table try/catch: a failed CREATE reaches the
\* outer catch and ends the run with a 500
CreateTableAborting ==
  /\ pc = "create"
  /\ \/ /\ ~dest[tableName].exists
        /\ dest' = [dest EXCEPT ![tableName] = EmptyTable]
        /\ IF shouldCopyData(tableDataFlags, tableName)
           THEN /\ pc' = "select"
                /\ trace' = Append(trace, Statement("dest", "CREATE", tableName, TRUE, 0))
                /\ UNCHANGED <<idx, data, rowIdx, rowsCopied, results, response>>
           ELSE EndTable(<<Statement("dest", "CREATE", tableName, TRUE, 0)>>,
                         SuccessOutcome(tableName, rowsCopied))
     \/ /\ pc' = "done"
        /\ response' = ErrorResponse(500)
        /\ trace' = Append(trace, Statement("dest", "CREATE", tableName, FALSE, 0))
        /\ UNCHANGED <<idx, data, rowIdx, rowsCopied, results, dest>>
  /\ UNCHANGED <<matcherVars, extVars>>
  /\ UNCHANGED <<hasOldDb, hasNewDb, tablePattern, selectedTables, tableDataFlags,
                 tables, tablesToMigrate>>

\* CreateTable whose failure is swallowed: the handler goes on to the copy
CreateTableSwallowsFailure ==
  /\ pc = "create"
  /\ \/ /\ ~dest[tableName].exists
        /\ dest' = [dest EXCEPT ![tableName] = EmptyTable]
        /\ IF shouldCopyData(tableDataFlags, tableName)
           THEN /\ pc' = "select"
                /\ trace' = Append(trace, Statement("dest", "CREATE", tableName, TRUE, 0))
                /\ UNCHANGED <<idx, data, rowIdx, rowsCopied, results, response>>
           ELSE EndTable(<<Statement("dest", "CREATE", tableName, TRUE, 0)>>,
                         SuccessOutcome(tableName, rowsCopied))
     \/ /\ pc' = "select"
        /\ trace' = Append(trace, Statement("dest", "CREATE", tableName, FALSE, 0))
        /\ UNCHANGED <<idx, data, rowIdx, rowsCopied, results, response, dest>>
  /\ UNCHANGED <<matcherVars, extVars>>
  /\ UNCHANGED <<hasOldDb, hasNewDb, tablePattern, selectedTables, tableDataFlags,
                 tables, tablesToMigrate>>

\* await destSql(`CREATE TABLE "${tableName}" (${columnDefs})`), then
\* shouldCopyData: without a copy the table is done
CreateTable ==
  /\ pc = "create"
  /\ \/ /\ ~dest[tableName].exists
        /\ dest' = [dest EXCEPT ![tableName] = EmptyTable]
        /\ IF shouldCopyData(tableDataFlags, tableName)
           THEN /\ pc' = "select"
                /\ trace' = Append(trace, Statement("dest", "CREATE", tableName, TRUE, 0))
                /\ UNCHANGED <<idx, data, rowIdx, rowsCopied, results, response>>
           ELSE EndTable(<<Statement("dest", "CREATE", tableName, TRUE, 0)>>,
                         SuccessOutcome(tableName, rowsCopied))
     \/ /\ EndTable(<<Statement("dest", "CREATE", tableName, FALSE, 0)>>,
                    ErrorOutcome(tableName, "CREATE"))
        /\ UNCHANGED dest
  /\ UNCHANGED <<matcherVars, extVars>>
  /\ UNCHANGED <<hasOldDb, hasNewDb, tablePattern, selectedTables, tableDataFlags,
                 tables, tablesToMigrate>>

\* await sourceSql(`SELECT * FROM "${tableName}"`); with no row the loop body
\* never runs and the table is done
SelectRows ==
  /\ pc = "select"
  /\ \/ \E n \in 0..MaxRows :
          IF n = 0
          THEN EndTable(<<Statement("source", "SELECT", tableName, TRUE, 0)>>,
                        SuccessOutcome(tableName, rowsCopied))
          ELSE /\ pc' = "insert"
               /\ data' = SourceRows(n)
               /\ rowIdx' = 1
               /\ trace' = Append(trace, Statement("source", "SELECT", tableName, TRUE, n))
               /\ UNCHANGED <<idx, rowsCopied, results, response>>
     \/ EndTable(<<Statement("source", "SELECT", tableName, FALSE, 0)>>,
                 ErrorOutcome(tableName, "SELECT"))
  /\ UNCHANGED <<matcherVars, extVars>>
  /\ UNCHANGED <<hasOldDb, hasNewDb, tablePattern, selectedTables, tableDataFlags,
                 tables, tablesToMigrate, dest>>

\* InsertRow inside a transaction per table: a failed INSERT undoes the rows
\* inserted before it
InsertRowRollingBack ==
  /\ pc = "insert"
  /\ \/ /\ dest[tableName].exists
        /\ dest' = [dest EXCEPT ![tableName].rows = Append(@, data[rowIdx])]
        /\ IF rowIdx < Len(data)
           THEN /\ rowIdx' = rowIdx + 1
                /\ rowsCopied' = rowsCopied + 1
                /\ trace' = Append(trace,
                                   Statement("dest", "INSERT", tableName, TRUE, data[rowIdx]))
                /\ UNCHANGED <<pc, idx, data, results, response>>
           ELSE EndTable(<<Statement("dest", "INSERT", tableName, TRUE, data[rowIdx])>>,
                         SuccessOutcome(tableName, rowsCopied + 1))
     \/ /\ EndTable(<<Statement("dest", "INSERT", tableName, FALSE, data[rowIdx])>>,
                    ErrorOutcome(tableName, "INSERT"))
        /\ dest' = [dest EXCEPT ![tableName].rows = <<>>]
  /\ UNCHANGED <<matcherVars, extVars>>
  /\ UNCHANGED <<hasOldDb, hasNewDb, tablePattern, selectedTables, tableDataFlags,
                 tables, tablesToMigrate>>

\* InsertRow that reports the tally as it stood before the last row
InsertRowNoTally ==
  /\ pc = "insert"
  /\ \/ /\ dest[tableName].exists
        /\ dest' = [dest EXCEPT ![tableName].rows = Append(@, data[rowIdx])]
        /\ IF rowIdx < Len(data)
           THEN /\ rowIdx' = rowIdx + 1
                /\ rowsCopied' = rowsCopied + 1
                /\ trace' = Append(trace,
                                   Statement("dest", "INSERT", tableName, TRUE, data[rowIdx]))
                /\ UNCHANGED <<pc, idx, data, results, response>>
           ELSE EndTable(<<Statement("dest", "INSERT", tableName, TRUE, data[rowIdx])>>,
                         SuccessOutcome(tableName, rowsCopied))
     \/ /\ EndTable(<<Statement("dest", "INSERT", tableName, FALSE, data[rowIdx])>>,
                    ErrorOutcome(tableName, "INSERT"))
        /\ UNCHANGED dest
  /\ UNCHANGED <<matcherVars, extVars>>
  /\ UNCHANGED <<hasOldDb, hasNewDb, tablePattern, selectedTables, tableDataFlags,
                 tables, tablesToMigrate>>

\* await destSql(`INSERT INTO "${tableName}" ... `, vals); rowsCopied++; after
\* the last row the table is done
InsertRow ==
  /\ pc = "insert"
  /\ \/ /\ dest[tableName].exists
        /\ dest' = [dest EXCEPT ![tableName].rows = Append(@, data[rowIdx])]
        /\ IF rowIdx < Len(data)
           THEN /\ rowIdx' = rowIdx + 1
                /\ rowsCopied' = rowsCopied + 1
                /\ trace' = Append(trace,
                                   Statement("dest", "INSERT", tableName, TRUE, data[rowIdx]))
                /\ UNCHANGED <<pc, idx, data, results, response>>
           ELSE EndTable(<<Statement("dest", "INSERT", tableName, TRUE, data[rowIdx])>>,
                         SuccessOutcome(tableName, rowsCopied + 1))
     \/ /\ EndTable(<<Statement("dest", "INSERT", tableName, FALSE, data[rowIdx])>>,
                    ErrorOutcome(tableName, "INSERT"))
        /\ UNCHANGED dest
  /\ UNCHANGED <<matcherVars, extVars>>
  /\ UNCHANGED <<hasOldDb, hasNewDb, tablePattern, selectedTables, tableDataFlags,
                 tables, tablesToMigrate>>

(***************************************************************************)
(* Column metadata and the dry-run planner (POST /api/dry-run and          *)
(* POST /api/quick-dry-run build the plan with the same code).  SQL text   *)
(* is a sequence of pieces: a table name contributes its characters, every *)
(* other interpolated value and every literal part of a template is one    *)
(* piece.                                                                  *)
(***************************************************************************)
\* SQL NULL in a column of a metadata row
Null == "null"

\* a row of information_schema.columns
ColumnRow(t, name, type, maxLength, nullable, default, ordinal) ==
  [table_name |-> t, column_name |-> name, data_type |-> type,
   character_maximum_length |-> maxLength, is_nullable |-> nullable,
   column_default |-> default, ordinal_position |-> ordinal]

\* the collation order of the table names of the model
SortedNames == <<Items, Orders, PgStat, Users>>

\* ORDER BY table_name over a set of names
OrderByName(S) == SelectSeq(SortedNames, LAMBDA n : n \in S)

RECURSIVE Join(_, _)
\* Array.prototype.join on an array of texts
Join(texts, separator) ==
  IF texts = <<>> THEN <<>>
  ELSE IF Len(texts) = 1 THEN texts[1]
  ELSE texts[1] \o separator \o Join(Tail(texts), separator)

\* an empty Map<string, any[]>: its keys in insertion order and their values
EmptyMap == [keys |-> <<>>, get |-> <<>>]

RECURSIVE tableSchemas(_, _, _)
\* the loop over the rows of the columns query: rows of system tables and of
\* tables the pattern rejects are skipped, the others are grouped by table
tableSchemas(rows, pattern, map) ==
  IF rows = <<>> THEN map
  ELSE
    LET col == Head(rows)
        name == col.table_name
    IN IF isSystemTable(name) \/ ~matchesPattern(name, pattern)
       THEN tableSchemas(Tail(rows), pattern, map)
       ELSE
         LET has == \E i \in 1..Len(map.keys) : map.keys[i] = name
             keys == IF has THEN map.keys ELSE Append(map.keys, name)
             old == IF has THEN map.get[name] ELSE <<>>
             get == [k \in {keys[i] : i \in 1..Len(keys)} |->
                       IF k = name THEN Append(old, col) ELSE map.get[k]]
         IN tableSchemas(Tail(rows), pattern, [keys |-> keys, get |-> get])

\* one column clause of the plan's CREATE action
createColumn(col) ==
  <<col.column_name, " ", col.data_type>>
  \o (IF col.is_nullable = "NO" THEN <<" NOT NULL">> ELSE <<>>)
  \o (IF col.column_default # Null
      THEN <<" DEFAULT ", col.column_default>> ELSE <<>>)

\* the column clauses of the plan's CREATE action, before they are joined
createColumnList(columns) == [i \in 1..Len(columns) |-> createColumn(columns[i])]

\* planEntry with the CREATE action listed before the DROP action
planEntryCreateFirst(name, columns) ==
  [tableName |-> name,
   actions |->
     << <<"CREATE TABLE public.">> \o name \o <<" (\n  ">>
          \o Join(createColumnList(columns), <<",\n  ">>) \o <<"\n);">>,
        <<"DROP TABLE IF EXISTS public.">> \o name \o <<" CASCADE;">>,
        <<"-- Copy data from source">> >>]

\* the plan entry of one table
planEntry(name, columns) ==
  [tableName |-> name,
   actions |->
     << <<"DROP TABLE IF EXISTS public.">> \o name \o <<" CASCADE;">>,
        <<"CREATE TABLE public.">> \o name \o <<" (\n  ">>
          \o Join(createColumnList(columns), <<",\n  ">>) \o <<"\n);">>,
        <<"-- Copy data from source">> >>]

\* Array.from(tableSchemas.keys()).map(...): the plan of a dry run
buildPlan(rows, pattern) ==
  LET map == tableSchemas(rows, pattern, EmptyMap)
  IN [i \in 1..Len(map.keys) |-> planEntry(map.keys[i], map.get[map.keys[i]])]

(***************************************************************************)
(* The table filter of the exported script (POST /api/generate-script):    *)
(* TABLE_PATTERN is built by the handler, compiled and applied by Python's *)
(* re module when the script runs.                                         *)
(***************************************************************************)
\* tablePattern ? tablePattern.replace(/%/g, '.*').replace(/_/g, '.') : '.*'
TABLE_PATTERN(pattern) ==
  IF pattern = Undefined \/ pattern = <<>> THEN <<".", "*">>
  ELSE substituteWildcards(pattern)

\* re.compile(f"^{TABLE_PATTERN}$", re.IGNORECASE): on sources made of plain
\* characters, `.`, `*` and `?` Python's grammar is that of ParseTerms (a
\* quantifier with nothing to repeat, or repeated, raises re.error)
reCompile(source) == ParseTerms(source, 1)

\* one atom against one character: without re.DOTALL `.` matches anything
\* but a newline
reAtomMatches(term, c) ==
  IF term.kind = "any" THEN c # "\n"
  ELSE Canonicalize(term.ch) = Canonicalize(c)

RECURSIVE reMatchFrom(_, _, _, _)
\* terms k.. match the characters j.. of s up to `$`, which matches at the
\* end of s and before a newline that ends s
reMatchFrom(terms, k, s, j) ==
  IF k > Len(terms) THEN j > Len(s) \/ (j = Len(s) /\ s[j] = "\n")
  ELSE
    LET t == terms[k]
        here == j <= Len(s) /\ reAtomMatches(t, s[j])
    IN CASE t.quant = "one"  -> here /\ reMatchFrom(terms, k + 1, s, j + 1)
         [] t.quant = "opt"  -> \/ reMatchFrom(terms, k + 1, s, j)
                                \/ here /\ reMatchFrom(terms, k + 1, s, j + 1)
         [] t.quant = "star" -> \/ reMatchFrom(terms, k + 1, s, j)
                                \/ here /\ reMatchFrom(terms, k, s, j + 1)

\* regex.match(table)
reMatch(regex, table) == reMatchFrom(regex.terms, 1, table, 1)

\* the script's filter loop: [raised |-> re.compile raised, so the script
\* stopped before the loop, tables |-> tables_to_migrate]
scriptTablesToMigrate(names, pattern) ==
  LET regex == reCompile(TABLE_PATTERN(pattern))
      Kept(table) ==
        /\ ~(startsWith(table, <<"p", "g", "_">>)
             \/ startsWith(table, <<"i", "n", "f", "o", "r", "m", "a", "t", "i",
                                    "o", "n", "_", "s", "c", "h", "e", "m", "a">>))
        /\ reMatch(regex, table)
  IN IF ~regex.ok THEN [raised |-> TRUE, tables |-> <<>>]
     ELSE [raised |-> FALSE, tables |-> SelectSeq(names, Kept)]

(***************************************************************************)
(* Table discovery: the list of tables each endpoint works on, computed    *)
(* from the rows of its metadata query and the request.                    *)
(***************************************************************************)
Public == <<"p", "u", "b", "l", "i", "c", ".">>

RECURSIVE replaceFirst(_, _)
\* s.replace(search, ''): the first occurrence of search removed
replaceFirst(s, search) ==
  IF s = <<>> THEN <<>>
  ELSE IF startsWith(s, search) THEN SubSeq(s, Len(search) + 1, Len(s))
  ELSE <<Head(s)>> \o replaceFirst(Tail(s), search)

\* selectedTables && selectedTables.length > 0 ? list.filter(includes) : list
selectedOnly(list, selected) ==
  IF selected.defined /\ selected.items # {}
  THEN SelectSeq(list, LAMBDA name : name \in selected.items)
  ELSE list

\* the metadata every table of the discovery model has: one column
IdColumn(t) == ColumnRow(t, "id", "integer", Null, "NO", Null, 1)

InitDiscovery ==
  /\ MatcherIdle
  /\ ManagerIdle
  /\ runs = <<>>
  /\ tables \in DiscoveredLists
  /\ tablePattern \in MigratePatterns
  /\ selectedTables \in SelectedLists
  /\ path = "none"
  /\ returned = <<>>
  /\ DryRunIdle
  /\ DdlIdle
  /\ ScriptIdle
  /\ UiIdle
  /\ RequestIdle
  /\ hasOldDb = TRUE
  /\ hasNewDb = TRUE
  /\ tableDataFlags = NoFlags
  /\ pc = "idle"
  /\ tablesToMigrate = <<>>
  /\ idx = 0
  /\ data = <<>>
  /\ rowIdx = 0
  /\ rowsCopied = 0
  /\ results = <<>>
  /\ response = NoResponse
  /\ dest = [n \in DbTableNames |-> Absent]
  /\ trace = <<>>

\* what a discovery leaves alone
DiscoveryFrame ==
  UNCHANGED <<matcherVars, managerVars, runs, hasOldDb, hasNewDb, tablePattern, selectedTables,
              tableDataFlags, pc, tables, tablesToMigrate, idx, data, rowIdx,
              rowsCopied, results, response, dest, trace, dryRunVars, ddlVars,
              scriptVars, uiVars, requestVars>>

\* POST /api/analyze and POST /api/quick-analyze: rows of pg_stat_user_tables,
\* named schemaname || '.' || relname
AnalyzeTables ==
  /\ path = "none"
  /\ path' = "analyze"
  /\ LET ordered == OrderByName(Range(tables))
         rows == [i \in 1..Len(ordered) |-> Public \o ordered[i]]
         names == [i \in 1..Len(rows) |-> replaceFirst(rows[i], Public)]
     IN returned' = SelectSeq(SelectSeq(names, LAMBDA n : ~isSystemTable(n)),
                           LAMBDA n : matchesPattern(n, tablePattern))
  /\ DiscoveryFrame

\* POST /api/dry-run and POST /api/quick-dry-run: the tables of the plan
DryRunTables ==
  /\ path = "none"
  /\ path' = "dry-run"
  /\ LET ordered == OrderByName(Range(tables))
         rows == [i \in 1..Len(ordered) |-> IdColumn(ordered[i])]
         built == buildPlan(rows, tablePattern)
     IN returned' = [i \in 1..Len(built) |-> built[i].tableName]
  /\ DiscoveryFrame

\* POST /api/quick-migrate
MigrateTables ==
  /\ path = "none"
  /\ path' = "migrate"
  /\ returned' = TablesToMigrate(tables, tablePattern, selectedTables)
  /\ DiscoveryFrame

\* POST /api/download-source-backup
SourceBackupTables ==
  /\ path = "none"
  /\ path' = "source-backup"
  /\ returned' =
       selectedOnly(SelectSeq(SelectSeq(tables, LAMBDA n : ~isSystemTable(n)),
                           LAMBDA n : matchesPattern(n, tablePattern)),
                    selectedTables)
  /\ DiscoveryFrame

\* POST /api/download-backup: the dump of the destination
DestinationBackupTables ==
  /\ path = "none"
  /\ path' = "destination-backup"
  /\ returned' = selectedOnly(tables, selectedTables)
  /\ DiscoveryFrame

\* GET /api/db/tables
ListTables ==
  /\ path = "none"
  /\ path' = "tables"
  /\ returned' = SelectSeq(OrderByName(Range(tables)), LAMBDA n : ~isSystemTable(n))
  /\ DiscoveryFrame

\* POST /api/db/backup
DbBackupTables ==
  /\ path = "none"
  /\ path' = "db-backup"
  /\ returned' = selectedOnly(SelectSeq(tables, LAMBDA n : ~isSystemTable(n)),
                              selectedTables)
  /\ DiscoveryFrame

\* the exported script, run against the source
ScriptTables ==
  /\ path = "none"
  /\ path' = "script"
  /\ returned' = scriptTablesToMigrate(tables, tablePattern).tables
  /\ DiscoveryFrame

NextDiscovery ==
  \/ AnalyzeTables
  \/ DryRunTables
  \/ MigrateTables
  \/ SourceBackupTables
  \/ DestinationBackupTables
  \/ ListTables
  \/ DbBackupTables
  \/ ScriptTables

(***************************************************************************)
(* The dry-run handlers: POST /api/quick-dry-run and POST /api/dry-run run *)
(* one query on the source and build the plan from its rows.               *)
(***************************************************************************)
\* the name of the column at each ordinal position
ColumnNames == <<"id", "Total", "name", "note">>

\* the definition the dry-run model gives the column at each ordinal position
ColumnKinds ==
  << [type |-> "integer", maxLength |-> Null, nullable |-> "NO", default |-> "0"],
     [type |-> "character varying", maxLength |-> "50", nullable |-> "YES",
      default |-> Null],
     [type |-> "integer", maxLength |-> Null, nullable |-> "YES", default |-> Null],
     [type |-> "text", maxLength |-> Null, nullable |-> "NO", default |-> Null] >>

\* the rows of information_schema.columns of a table of n columns
TableColumns(t, n) ==
  {ColumnRow(t, ColumnNames[k], ColumnKinds[k].type, ColumnKinds[k].maxLength,
             ColumnKinds[k].nullable, ColumnKinds[k].default, k) : k \in 1..n}

\* the tables the source of the dry-run model may hold
PlannedNames == {Orders, Items, PgStat}

\* the source schemas of the dry-run model: every table absent or of 1..MaxCols
\* columns
SourceSchemas ==
  {UNION {TableColumns(t, n[t]) : t \in PlannedNames} :
     n \in [PlannedNames -> 0..MaxCols]}

RECURSIVE orderByOrdinal(_)
\* ORDER BY ordinal_position on the rows of one table
orderByOrdinal(rows) ==
  IF rows = {} THEN <<>>
  ELSE LET first == CHOOSE r \in rows :
                      \A q \in rows : r.ordinal_position <= q.ordinal_position
       IN <<first>> \o orderByOrdinal(rows \ {first})

RECURSIVE Concat(_)
\* the concatenation of a sequence of sequences
Concat(seqs) == IF seqs = <<>> THEN <<>> ELSE Head(seqs) \o Concat(Tail(seqs))

\* the rows of table t
RowsOf(rows, t) == {r \in rows : r.table_name = t}

\* SELECT ... FROM information_schema.columns WHERE table_schema = 'public'
\* ORDER BY table_name, ordinal_position
columnsQuery(rows) ==
  LET names == OrderByName({r.table_name : r \in rows})
  IN Concat([i \in 1..Len(names) |-> orderByOrdinal(RowsOf(rows, names[i]))])

InitDryRun ==
  /\ MatcherIdle
  /\ ManagerIdle
  /\ runs = <<>>
  /\ DiscoveryIdle
  /\ DdlIdle
  /\ ScriptIdle
  /\ UiIdle
  /\ RequestIdle
  /\ srcColumns \in SourceSchemas
  /\ plan = <<>>
  /\ dryRuns = 0
  /\ dryStatus = 0
  /\ hasOldDb \in BOOLEAN
  /\ hasNewDb = TRUE
  /\ tablePattern = Undefined
  /\ selectedTables = NoList
  /\ tableDataFlags = NoFlags
  /\ pc = "idle"
  /\ tables = <<>>
  /\ tablesToMigrate = <<>>
  /\ idx = 0
  /\ data = <<>>
  /\ rowIdx = 0
  /\ rowsCopied = 0
  /\ results = <<>>
  /\ response = NoResponse
  /\ dest \in {[n \in DbTableNames |-> Absent], [n \in DbTableNames |-> OldTable]}
  /\ trace = <<>>

\* what a dry run leaves alone whatever its outcome
DryRunFrame ==
  UNCHANGED <<matcherVars, managerVars, runs, discoveryVars, ddlVars, scriptVars, uiVars,
              requestVars, srcColumns, hasOldDb,
              hasNewDb, selectedTables, tableDataFlags, pc, tables,
              tablesToMigrate, idx, data, rowIdx, rowsCopied, results, response>>

\* the 400 answer: DATABASE_URL_OLD is not configured (quick-dry-run), or the
\* body does not validate (dry-run)
DryRunRejected ==
  /\ dryRuns < MaxDryRuns
  /\ ~hasOldDb
  /\ \E p \in MigratePatterns : tablePattern' = p
  /\ dryRuns' = dryRuns + 1
  /\ dryStatus' = 400
  /\ plan' = <<>>
  /\ UNCHANGED <<dest, trace>>
  /\ DryRunFrame

\* the columns query throws: the 500 answer
DryRunQueryFails ==
  /\ dryRuns < MaxDryRuns
  /\ hasOldDb
  /\ \E p \in MigratePatterns : tablePattern' = p
  /\ dryRuns' = dryRuns + 1
  /\ dryStatus' = 500
  /\ plan' = <<>>
  /\ trace' = Append(trace, Statement("source", "columns", <<>>, FALSE, 0))
  /\ UNCHANGED dest
  /\ DryRunFrame

\* DryRun that also performs the DROP actions of its plan
DryRunExecutingPlan ==
  /\ dryRuns < MaxDryRuns
  /\ hasOldDb
  /\ \E p \in MigratePatterns :
       LET rows == columnsQuery(srcColumns)
           built == buildPlan(rows, p)
           planned == {built[i].tableName : i \in 1..Len(built)}
       IN /\ tablePattern' = p
          /\ plan' = built
          /\ trace' = Append(trace, Statement("source", "columns", <<>>, TRUE,
                                              Len(rows)))
                      \o [i \in 1..Len(built) |->
                            Statement("destination", "drop", built[i].tableName,
                                      TRUE, 0)]
          /\ dest' = [n \in DbTableNames |-> IF n \in planned THEN Absent ELSE dest[n]]
  /\ dryRuns' = dryRuns + 1
  /\ dryStatus' = 200
  /\ DryRunFrame

\* the columns query answers: the plan is built from its rows and returned
DryRun ==
  /\ dryRuns < MaxDryRuns
  /\ hasOldDb
  /\ \E p \in MigratePatterns :
       LET rows == columnsQuery(srcColumns)
       IN /\ tablePattern' = p
          /\ plan' = buildPlan(rows, p)
          /\ trace' = Append(trace, Statement("source", "columns", <<>>, TRUE,
                                              Len(rows)))
  /\ dryRuns' = dryRuns + 1
  /\ dryStatus' = 200
  /\ UNCHANGED dest
  /\ DryRunFrame

NextDryRun ==
  \/ DryRunRejected
  \/ DryRunQueryFails
  \/ DryRun

(***************************************************************************)
(* The DDL of one table as its three producers build it: the executor      *)
(* (POST /api/quick-migrate), the dry-run plan and the exported script.    *)
(* In the texts a quote mark, an identifier, a type, a length and a        *)
(* default expression are each one piece.                                  *)
(***************************************************************************)
\* the type and length, nullability and default a column may have
AllKinds ==
  {[type |-> k[1], maxLength |-> k[2], nullable |-> n, default |-> d] :
     k \in {<<"integer", Null>>, <<"character varying", Null>>,
            <<"character varying", "50">>},
     n \in {"YES", "NO"}, d \in {Null, "0"}}

\* the rows information_schema.columns may hold for table t: 0..MaxCols
\* columns of any kind
ColumnSets(t) ==
  UNION {{{ColumnRow(t, ColumnNames[k], kind[k].type, kind[k].maxLength,
                     kind[k].nullable, kind[k].default, k) : k \in 1..n} :
            kind \in [1..n -> AllKinds]} : n \in 0..MaxCols}

\* the tables whose DDL is built
DdlTables == {Orders, Items}

\* the name of the one table of the DDL model
ddlTable == tables[1]

\* one element of columnDefs
columnDefNoDefault(col) ==
  <<"\"", col.column_name, "\"", " ", col.data_type>>
  \o (IF col.character_maximum_length # Null
      THEN <<"(", col.character_maximum_length, ")">> ELSE <<>>)
  \o (IF col.is_nullable = "NO" THEN <<" NOT NULL">> ELSE <<>>)

\* one element of columnDefs: def, with its three conditional suffixes
columnDef(col) ==
  <<"\"", col.column_name, "\"", " ", col.data_type>>
  \o (IF col.character_maximum_length # Null
      THEN <<"(", col.character_maximum_length, ")">> ELSE <<>>)
  \o (IF col.is_nullable = "NO" THEN <<" NOT NULL">> ELSE <<>>)
  \o (IF col.column_default # Null
      THEN <<" DEFAULT ", col.column_default>> ELSE <<>>)

\* columns.map(...) of columnDefs, before the join
columnDefList(columns) == [i \in 1..Len(columns) |-> columnDef(columns[i])]

\* the DROP and CREATE statements the executor sends for table t
executorDdl(t, columns) ==
  [built |-> TRUE,
   target |-> <<"\"">> \o t \o <<"\"">>,
   clauses |-> columnDefList(columns),
   drop |-> <<"DROP TABLE IF EXISTS ", "\"">> \o t \o <<"\"", " CASCADE">>,
   create |-> <<"CREATE TABLE ", "\"">> \o t \o <<"\"", " (">>
              \o Join(columnDefList(columns), <<", ">>) \o <<")">>]

\* the DROP and CREATE actions of the plan entry of table t
plannedDdl(t, entries) ==
  LET at == {i \in 1..Len(entries) : entries[i].tableName = t}
  IN IF at = {} THEN [NoDdl EXCEPT !.built = TRUE]
     ELSE LET entry == entries[CHOOSE i \in at : TRUE]
          IN [built |-> TRUE,
              target |-> <<"public.">> \o t,
              clauses |-> createColumnList(
                            orderByOrdinal(RowsOf(srcColumns, t))),
              drop |-> entry.actions[1],
              create |-> entry.actions[2]]

\* the column names quote_ident returns as they are: lower case, no keyword
PlainIdentifiers == {"id", "name", "note"}

\* quote_ident on a column name
quote_ident(name) ==
  IF name \in PlainIdentifiers THEN <<name>> ELSE <<"\"", name, "\"">>

\* quote_ident on a table name, spelled in characters
quote_ident_chars(t) ==
  IF \A i \in 1..Len(t) : t[i] = "_" \/ \E j \in 1..Len(LowerCase) : LowerCase[j] = t[i]
  THEN t ELSE <<"\"">> \o t \o <<"\"">>

\* the value string_agg aggregates for one column
scriptClause(col) ==
  quote_ident(col.column_name) \o <<" ", col.data_type>>
  \o (IF col.character_maximum_length # Null
      THEN <<"(", col.character_maximum_length, ")">> ELSE <<>>)
  \o (IF col.is_nullable = "NO" THEN <<" NOT NULL">> ELSE <<>>)

\* the orders in which string_agg, which has no ORDER BY, may take the rows
AggregationOrders(rows) ==
  {o \in [1..Cardinality(rows) -> rows] : \A i, j \in DOMAIN o : o[i] = o[j] => i = j}

\* the statements the script runs for table t when string_agg takes the rows
\* in this order; with no row, fetchone() is None and the table is skipped
scriptBuiltDdl(t, ordered) ==
  IF ordered = <<>> THEN [NoDdl EXCEPT !.built = TRUE]
  ELSE
    LET clauses == [i \in 1..Len(ordered) |-> scriptClause(ordered[i])]
    IN [built |-> TRUE,
        target |-> <<"\"">> \o t \o <<"\"">>,
        clauses |-> clauses,
        drop |-> <<"DROP TABLE IF EXISTS ", "\"">> \o t \o <<"\"", " CASCADE">>,
        create |-> <<"CREATE TABLE ">> \o quote_ident_chars(t) \o <<" (">>
                   \o Join(clauses, <<", ">>) \o <<");">>]

InitDdl ==
  /\ MatcherIdle
  /\ ManagerIdle
  /\ runs = <<>>
  /\ DiscoveryIdle
  /\ \E t \in DdlTables :
       /\ tables = <<t>>
       /\ srcColumns \in ColumnSets(t)
  /\ plan = <<>>
  /\ dryRuns = 0
  /\ dryStatus = 0
  /\ DdlIdle
  /\ ScriptIdle
  /\ UiIdle
  /\ RequestIdle
  /\ hasOldDb = TRUE
  /\ hasNewDb = TRUE
  /\ tablePattern = Undefined
  /\ selectedTables = NoList
  /\ tableDataFlags = NoFlags
  /\ pc = "idle"
  /\ tablesToMigrate = <<>>
  /\ idx = 0
  /\ data = <<>>
  /\ rowIdx = 0
  /\ rowsCopied = 0
  /\ results = <<>>
  /\ response = NoResponse
  /\ dest = [n \in DbTableNames |-> Absent]
  /\ trace = <<>>

\* what building DDL leaves alone
DdlFrame ==
  UNCHANGED <<matcherVars, managerVars, runs, migrateVars, discoveryVars, scriptVars, uiVars,
              requestVars, srcColumns, dryRuns, dryStatus>>

\* the executor: the columns query of the table, columnDefs, the two statements
BuildExecutorDdl ==
  /\ execDdl' = executorDdl(ddlTable, orderByOrdinal(RowsOf(srcColumns, ddlTable)))
  /\ UNCHANGED <<plan, planDdl, scriptDdl>>
  /\ DdlFrame

\* the dry run: the plan of the source, and in it the entry of the table
BuildPlanDdl ==
  /\ ~planDdl.built
  /\ plan' = buildPlan(columnsQuery(srcColumns), tablePattern)
  /\ planDdl' = plannedDdl(ddlTable, plan')
  /\ UNCHANGED <<execDdl, scriptDdl>>
  /\ DdlFrame

\* the script: the source builds the CREATE statement with string_agg
BuildScriptDdl ==
  /\ ~scriptDdl.built
  /\ \E ordered \in AggregationOrders(RowsOf(srcColumns, ddlTable)) :
       scriptDdl' = scriptBuiltDdl(ddlTable, ordered)
  /\ UNCHANGED <<plan, execDdl, planDdl>>
  /\ DdlFrame

NextDdl ==
  \/ BuildExecutorDdl
  \/ BuildPlanDdl
  \/ BuildScriptDdl

(***************************************************************************)
(* The table loop of the exported script (migrate() in the text            *)
(* POST /api/generate-script returns), run with psycopg2: both connections *)
(* open a transaction with their first statement; a statement the server   *)
(* refuses leaves its connection's transaction failed, and the connection  *)
(* refuses every statement until it is rolled back.                        *)
(***************************************************************************)
\* the tables the script may have kept in tables_to_migrate
ScriptNames == {Orders, Items, Users}

ScriptLists ==
  {l \in SeqsUpTo(ScriptNames, MaxTables) :
     \A i, j \in 1..Len(l) : l[i] = l[j] => i = j}

\* the column rows of the source: every table has a column, except that
\* orders may have none
ScriptSchemas ==
  {UNION {TableColumns(t, 1) : t \in S} : S \in {ScriptNames, ScriptNames \ {Orders}}}

\* what the script prints when it is done with a table
Printed(t, status, message) == [table |-> t, status |-> status, error |-> message]

InitScript ==
  /\ MatcherIdle
  /\ ManagerIdle
  /\ runs = <<>>
  /\ DiscoveryIdle
  /\ DdlIdle
  /\ UiIdle
  /\ RequestIdle
  /\ srcColumns \in ScriptSchemas
  /\ plan = <<>>
  /\ dryRuns = 0
  /\ dryStatus = 0
  /\ sResult = "pending"
  /\ sourceTx = "idle"
  /\ destTx = "idle"
  /\ dest \in {[n \in DbTableNames |-> Absent], [n \in DbTableNames |-> OldTable]}
  /\ destWork = dest
  /\ tablesToMigrate \in ScriptLists
  /\ idx = IF tablesToMigrate = <<>> THEN 0 ELSE 1
  /\ pc = IF tablesToMigrate = <<>> THEN "done" ELSE "create_query"
  /\ hasOldDb = TRUE
  /\ hasNewDb = TRUE
  /\ tablePattern = Undefined
  /\ selectedTables = NoList
  /\ tableDataFlags = NoFlags
  /\ tables = <<>>
  /\ data = <<>>
  /\ rowIdx = 0
  /\ rowsCopied = 0
  /\ results = <<>>
  /\ response = NoResponse
  /\ trace = <<>>

\* what the script's loop leaves alone
ScriptFrame ==
  UNCHANGED <<matcherVars, managerVars, runs, discoveryVars, dryRunVars, ddlVars,
              uiVars, requestVars,
              sResult, hasOldDb, hasNewDb, tablePattern, selectedTables,
              tableDataFlags, tables, tablesToMigrate, rowIdx, rowsCopied,
              response, trace>>

\* the loop goes on to the next table, or ends
NextTable(outcome) ==
  /\ results' = Append(results, outcome)
  /\ data' = <<>>
  /\ IF idx < Len(tablesToMigrate)
     THEN idx' = idx + 1 /\ pc' = "create_query"
     ELSE idx' = idx /\ pc' = "done"

\* except Exception: print, dest_conn.rollback(), continue
Except(message) ==
  /\ destWork' = dest
  /\ destTx' = "idle"
  /\ dest' = dest
  /\ NextTable(Printed(tableName, "error", message))

\* source_cur.execute of the query that builds the CREATE statement
ScriptCreateQuery ==
  /\ pc = "create_query"
  /\ \/ /\ sourceTx = "failed"
        /\ sourceTx' = sourceTx
        /\ Except("current transaction is aborted")
     \/ /\ sourceTx # "failed"
        /\ sourceTx' = "failed"
        /\ Except("statement failed")
     \/ /\ sourceTx # "failed"
        /\ sourceTx' = "open"
        /\ IF RowsOf(srcColumns, tableName) = {}
           THEN /\ NextTable(Printed(tableName, "skipped", "no CREATE statement"))
                /\ UNCHANGED <<dest, destTx, destWork>>
           ELSE /\ pc' = "drop"
                /\ UNCHANGED <<dest, destTx, destWork, idx, data, results>>
  /\ ScriptFrame

\* dest_cur.execute of DROP TABLE IF EXISTS
ScriptDrop ==
  /\ pc = "drop"
  /\ \/ Except("statement failed")
     \/ /\ destWork' = [destWork EXCEPT ![tableName] = Absent]
        /\ destTx' = "open"
        /\ pc' = "create"
        /\ UNCHANGED <<dest, idx, data, results>>
  /\ UNCHANGED sourceTx
  /\ ScriptFrame

\* dest_cur.execute(create_stmt[0]), then dest_conn.commit()
ScriptCreate ==
  /\ pc = "create"
  /\ \/ Except("statement failed")
     \/ /\ destWork' = [destWork EXCEPT ![tableName] = EmptyTable]
        /\ dest' = destWork'
        /\ destTx' = "idle"
        /\ pc' = "count"
        /\ UNCHANGED <<idx, data, results>>
  /\ UNCHANGED sourceTx
  /\ ScriptFrame

\* source_cur.execute of SELECT COUNT(*)
ScriptCount ==
  /\ pc = "count"
  /\ \/ /\ sourceTx' = "failed"
        /\ Except("statement failed")
     \/ /\ sourceTx' = "open"
        /\ pc' = "select"
        /\ UNCHANGED <<dest, destTx, destWork, idx, data, results>>
  /\ ScriptFrame

\* source_cur.execute of SELECT *
ScriptSelect ==
  /\ pc = "select"
  /\ \/ /\ sourceTx' = "failed"
        /\ Except("statement failed")
     \/ /\ sourceTx' = "open"
        /\ pc' = "copy"
        /\ \E n \in 0..MaxRows : data' = SourceRows(n)
        /\ UNCHANGED <<dest, destTx, destWork, idx, results>>
  /\ ScriptFrame

\* the batch loop: with no row left it ends and the script commits; with a
\* batch, ','.join(sql.Identifier(c) for c in columns) raises TypeError before
\* any INSERT is sent
ScriptCopy ==
  /\ pc = "copy"
  /\ IF data = <<>>
     THEN /\ NextTable(Printed(tableName, "success", "none"))
          /\ dest' = destWork
          /\ destTx' = "idle"
          /\ UNCHANGED destWork
     ELSE Except("TypeError")
  /\ UNCHANGED sourceTx
  /\ ScriptFrame

NextScript ==
  \/ ScriptCreateQuery
  \/ ScriptDrop
  \/ ScriptCreate
  \/ ScriptCount
  \/ ScriptSelect
  \/ ScriptCopy

(***************************************************************************)
(* The steps of the dashboard (client/src/pages/dashboard.tsx): one action *)
(* per button and per response of a handler that awaits one.               *)
(***************************************************************************)
\* isLoading: handleConnect or startDryRun awaits its response
isLoading == inFlight \cap {"connect", "dryrun"} # {}

InitUi ==
  /\ MatcherIdle
  /\ ManagerIdle
  /\ runs = <<>>
  /\ DiscoveryIdle
  /\ DryRunIdle
  /\ DdlIdle
  /\ ScriptIdle
  /\ RequestIdle
  /\ step = "connect"
  /\ planSeen = FALSE
  /\ inFlight = {}
  /\ hasOldDb \in BOOLEAN
  /\ hasNewDb = hasOldDb
  /\ useEnvVars = hasOldDb
  /\ tablePattern = Undefined
  /\ selectedTables = NoList
  /\ tableDataFlags = NoFlags
  /\ pc = "idle"
  /\ tables = <<>>
  /\ tablesToMigrate = <<>>
  /\ idx = 0
  /\ data = <<>>
  /\ rowIdx = 0
  /\ rowsCopied = 0
  /\ results = <<>>
  /\ response = NoResponse
  /\ dest = [n \in DbTableNames |-> Absent]
  /\ trace = <<>>

\* what the dashboard's handlers leave alone
UiFrame ==
  UNCHANGED <<matcherVars, managerVars, runs, discoveryVars, ddlVars, scriptVars, requestVars,
              srcColumns, dryRuns, dryStatus, hasOldDb, hasNewDb, tablePattern,
              selectedTables, tableDataFlags, pc, tablesToMigrate, idx, data,
              rowIdx, rowsCopied, results, dest, trace>>

\* the Use Env Vars button of the connect step, shown when the server has
\* both URLs
ToggleEnvVars ==
  /\ step = "connect"
  /\ hasOldDb /\ hasNewDb
  /\ useEnvVars' = ~useEnvVars
  /\ UNCHANGED <<step, planSeen, inFlight, tables, plan, response>>
  /\ UiFrame

\* the connect button: handleConnect starts
ClickConnect ==
  /\ step = "connect"
  /\ ~isLoading
  /\ inFlight' = inFlight \cup {"connect"}
  /\ UNCHANGED <<step, planSeen, useEnvVars, tables, plan, response>>
  /\ UiFrame

\* handleConnect: connect and analyze answered, setTables, setStep("analyze")
ConnectSucceeds ==
  /\ "connect" \in inFlight
  /\ inFlight' = inFlight \ {"connect"}
  /\ \E found \in DiscoveredLists :
       tables' = SelectSeq(found, LAMBDA n : ~isSystemTable(n))
  /\ step' = "analyze"
  /\ planSeen' = FALSE
  /\ UNCHANGED <<useEnvVars, plan, response>>
  /\ UiFrame

\* handleConnect: a form is invalid or a request fails
ConnectFails ==
  /\ "connect" \in inFlight
  /\ inFlight' = inFlight \ {"connect"}
  /\ UNCHANGED <<step, planSeen, useEnvVars, tables, plan, response>>
  /\ UiFrame

\* the Back button of the analyze step
ClickBack ==
  /\ step = "analyze"
  /\ step' = "connect"
  /\ UNCHANGED <<planSeen, inFlight, useEnvVars, tables, plan, response>>
  /\ UiFrame

\* the Dry Run Analysis button of the analyze step: startDryRun starts
ClickDryRun ==
  /\ step = "analyze"
  /\ ~isLoading
  /\ inFlight' = inFlight \cup {"dryrun"}
  /\ UNCHANGED <<step, planSeen, useEnvVars, tables, plan, response>>
  /\ UiFrame

\* startDryRun: the plan arrived, setDryRunPlan, setStep("dryrun")
DryRunSucceeds ==
  /\ "dryrun" \in inFlight
  /\ inFlight' = inFlight \ {"dryrun"}
  /\ plan' = buildPlan([i \in 1..Len(tables) |-> IdColumn(tables[i])], tablePattern)
  /\ step' = "dryrun"
  /\ planSeen' = TRUE
  /\ UNCHANGED <<useEnvVars, tables, response>>
  /\ UiFrame

\* startDryRun: the request fails
DryRunFails ==
  /\ "dryrun" \in inFlight
  /\ inFlight' = inFlight \ {"dryrun"}
  /\ UNCHANGED <<step, planSeen, useEnvVars, tables, plan, response>>
  /\ UiFrame

\* the Back to Analysis button of the dryrun step
ClickBackToAnalysis ==
  /\ step = "dryrun"
  /\ step' = "analyze"
  /\ UNCHANGED <<planSeen, inFlight, useEnvVars, tables, plan, response>>
  /\ UiFrame

\* Start Replication (analyze step) or Confirm & Execute (dryrun step):
\* startMigration sets the step at once; one migration is followed at a time
ClickStartMigration ==
  /\ step \in {"analyze", "dryrun"}
  /\ "migrate" \notin inFlight
  /\ inFlight' = inFlight \cup {"migrate"}
  /\ step' = "migrating"
  /\ response' = NoResponse
  /\ UNCHANGED <<planSeen, useEnvVars, tables, plan>>
  /\ UiFrame

\* startMigration with useEnvVars: /api/quick-migrate answered with its
\* outcome list, setStep("complete")
MigrationCompletes ==
  /\ "migrate" \in inFlight
  /\ useEnvVars
  /\ inFlight' = inFlight \ {"migrate"}
  /\ \E ok \in BOOLEAN :
       response' = OkResponse([i \in DOMAIN tables |->
                                 IF ok THEN SuccessOutcome(tables[i], 0)
                                 ELSE ErrorOutcome(tables[i], "DROP")])
  /\ step' = "complete"
  /\ UNCHANGED <<planSeen, useEnvVars, tables, plan>>
  /\ UiFrame

\* startMigration without useEnvVars: no request is sent; the progress the
\* timer adds up reached 100, setStep("complete")
SimulationCompletes ==
  /\ "migrate" \in inFlight
  /\ ~useEnvVars
  /\ inFlight' = inFlight \ {"migrate"}
  /\ step' = "complete"
  /\ UNCHANGED <<planSeen, useEnvVars, tables, plan, response>>
  /\ UiFrame

\* startMigration: the request to /api/quick-migrate fails
MigrationFails ==
  /\ "migrate" \in inFlight
  /\ useEnvVars
  /\ inFlight' = inFlight \ {"migrate"}
  /\ step' = "analyze"
  /\ response' = ErrorResponse(500)
  /\ UNCHANGED <<planSeen, useEnvVars, tables, plan>>
  /\ UiFrame

\* the Start New Migration button of the complete step
ClickNewMigration ==
  /\ step = "complete"
  /\ step' = "connect"
  /\ UNCHANGED <<planSeen, inFlight, useEnvVars, tables, plan, response>>
  /\ UiFrame

NextUi ==
  \/ ToggleEnvVars
  \/ ClickConnect
  \/ ConnectSucceeds
  \/ ConnectFails
  \/ ClickBack
  \/ ClickDryRun
  \/ DryRunSucceeds
  \/ DryRunFails
  \/ ClickBackToAnalysis
  \/ ClickStartMigration
  \/ MigrationCompletes
  \/ SimulationCompletes
  \/ MigrationFails
  \/ ClickNewMigration

(***************************************************************************)
(* Request validation (shared/schema.ts) in the four handlers that take    *)
(* connection descriptors: POST /api/connect, /api/analyze, /api/dry-run   *)
(* and /api/generate-script.  A field of a descriptor is absent, the empty *)
(* string, a non-empty string, or a JSON value that is no string.          *)
(***************************************************************************)
FieldNames == {"host", "port", "database", "user", "password", "connectionString"}
FieldValues == {"absent", "", "text", "not a string"}

\* the objects a request may carry as source or destination
Descriptors == [FieldNames -> FieldValues]

\* z.string().optional()
zStringOptional(v) == v \in {"absent", "", "text"}

\* the truthiness of a field that passed z.string().optional()
truthy(v) == v = "text"

\* connectionConfigSchema whose refinement asks for the host only
connectionConfigAcceptsHostOnly(d) ==
  /\ \A f \in FieldNames : zStringOptional(d[f])
  /\ IF truthy(d.connectionString) THEN TRUE ELSE truthy(d.host)

\* connectionConfigSchema: the object schema, then the refinement
connectionConfigAccepts(d) ==
  /\ \A f \in FieldNames : zStringOptional(d[f])
  /\ IF truthy(d.connectionString) THEN TRUE
     ELSE truthy(d.host) /\ truthy(d.port) /\ truthy(d.database)
          /\ truthy(d.user) /\ truthy(d.password)

\* testConnectionRequestSchema and migrationRequestSchema on the two
\* descriptors of a body
requestAccepts(source, destination) ==
  connectionConfigAccepts(source) /\ connectionConfigAccepts(destination)

\* descriptors that stand for the other side of a request: one with a
\* connection string only, one with a host only
UriDescriptor == [NoDescriptor EXCEPT !.connectionString = "text"]
HostDescriptor == [NoDescriptor EXCEPT !.host = "text"]
OtherSide == {UriDescriptor, HostDescriptor}

\* the handlers that validate descriptors
Endpoints == {"connect", "analyze", "dry-run", "generate-script"}

InitRequest ==
  /\ MatcherIdle
  /\ ManagerIdle
  /\ runs = <<>>
  /\ DryRunIdle
  /\ DdlIdle
  /\ ScriptIdle
  /\ UiIdle
  /\ \/ reqSource \in Descriptors /\ reqDestination \in OtherSide
     \/ reqSource \in OtherSide /\ reqDestination \in Descriptors
  /\ path = "none"
  /\ returned = <<>>
  /\ pc = "received"
  /\ hasOldDb = FALSE
  /\ hasNewDb = FALSE
  /\ tablePattern = Undefined
  /\ selectedTables = NoList
  /\ tableDataFlags = NoFlags
  /\ tables = <<>>
  /\ tablesToMigrate = <<>>
  /\ idx = 0
  /\ data = <<>>
  /\ rowIdx = 0
  /\ rowsCopied = 0
  /\ results = <<>>
  /\ response = NoResponse
  /\ dest = [n \in DbTableNames |-> Absent]
  /\ trace = <<>>

\* what these handlers leave alone
RequestFrame ==
  UNCHANGED <<matcherVars, managerVars, runs, dryRunVars, ddlVars, scriptVars,
              uiVars, requestVars,
              returned, hasOldDb, hasNewDb, tablePattern, selectedTables,
              tableDataFlags, tables, tablesToMigrate, idx, data, rowIdx,
              rowsCopied, results, dest>>

\* safeParse at the top of a handler: on failure the 400 answer
ValidateRequest ==
  /\ pc = "received"
  /\ \E endpoint \in Endpoints : path' = endpoint
  /\ IF requestAccepts(reqSource, reqDestination)
     THEN pc' = "validated" /\ response' = response
     ELSE pc' = "rejected" /\ response' = ErrorResponse(400)
  /\ UNCHANGED trace
  /\ RequestFrame

\* POST /api/connect: SELECT 1 on the source
ConnectTestSource ==
  /\ pc = "validated"
  /\ path = "connect"
  /\ \E ok \in BOOLEAN :
       /\ trace' = Append(trace, Statement("source", "select 1", <<>>, ok, 0))
       /\ IF ok THEN pc' = "source tested" /\ response' = response
          ELSE pc' = "done" /\ response' = ErrorResponse(400)
  /\ UNCHANGED path
  /\ RequestFrame

\* POST /api/connect: SELECT 1 on the destination
ConnectTestDestination ==
  /\ pc = "source tested"
  /\ \E ok \in BOOLEAN :
       /\ trace' = Append(trace, Statement("destination", "select 1", <<>>, ok, 0))
       /\ response' = IF ok THEN OkResponse(<<>>) ELSE ErrorResponse(400)
  /\ pc' = "done"
  /\ UNCHANGED path
  /\ RequestFrame

\* POST /api/analyze and POST /api/dry-run: the metadata query on the source
QuerySource ==
  /\ pc = "validated"
  /\ path \in {"analyze", "dry-run"}
  /\ \E ok \in BOOLEAN :
       /\ trace' = Append(trace, Statement("source", "metadata", <<>>, ok, 0))
       /\ response' = IF ok THEN OkResponse(<<>>) ELSE ErrorResponse(500)
  /\ pc' = "done"
  /\ UNCHANGED path
  /\ RequestFrame

\* POST /api/generate-script: the script text is rendered and returned
RenderScript ==
  /\ pc = "validated"
  /\ path = "generate-script"
  /\ response' = OkResponse(<<>>)
  /\ pc' = "done"
  /\ UNCHANGED <<path, trace>>
  /\ RequestFrame

NextRequest ==
  \/ ValidateRequest
  \/ ConnectTestSource
  \/ ConnectTestDestination
  \/ QuerySource
  \/ RenderScript

(***************************************************************************)
(* The database manager endpoints and the other handlers that build SQL    *)
(* text from a table name.                                                 *)
(***************************************************************************)
Letters ==
  {"a", "b", "c", "d", "e", "f", "g", "h", "i", "j", "k", "l", "m", "n", "o", "p",
   "q", "r", "s", "t", "u", "v", "w", "x", "y", "z",
   "A", "B", "C", "D", "E", "F", "G", "H", "I", "J", "K", "L", "M", "N", "O", "P",
   "Q", "R", "S", "T", "U", "V", "W", "X", "Y", "Z"}
Digits == {"0", "1", "2", "3", "4", "5", "6", "7", "8", "9"}

\* isIdentifier that only looks at the first character
isIdentifierFirstOnly(s) ==
  /\ s # <<>>
  /\ s[1] \in Letters \cup {"_"}

\* /^[a-zA-Z_][a-zA-Z0-9_]*$/.test(s)
isIdentifier(s) ==
  /\ s # <<>>
  /\ s[1] \in Letters \cup {"_"}
  /\ \A i \in 2..Len(s) : s[i] \in Letters \cup Digits \cup {"_"}

\* characters of a requested or stored table name: identifier characters and
\* characters outside the identifier grammar
IdentChars == {"a", "Z", "_", "1", "-", "\"", ";"}
IdentNames == SeqsUpTo(IdentChars, MaxNameLen)

\* a statement sent to the database: inText tells whether the table name is
\* part of the SQL text (FALSE: it travels as a bound parameter or not at all);
\* cols and where are the column names written into the text
Sql(op, table, inText, cols, where) ==
  [op |-> op, table |-> table, inText |-> inText, cols |-> cols, where |-> where]

\* column names
Id == <<"i", "d">>
Name == <<"n", "a", "m", "e">>
Dashed == <<"a", "-", "b">>
Ghost == <<"g", "h", "o", "s", "t">>

\* the columns information_schema.columns lists for table t
columnsResult(t) == IF t = dbCatalog.table THEN dbCatalog.columns ELSE <<>>

\* an entry of req.body.data or req.body.where
Entry(k, v) == [key |-> k, value |-> v]
NoRecord == [defined |-> FALSE, entries |-> <<>>]
Record(entries) == [defined |-> TRUE, entries |-> entries]

\* the keys of a sequence of entries, in order
Keys(entries) == [i \in DOMAIN entries |-> entries[i].key]

\* what a handler did: the statements it sent and its answer
Answer(status, body, sent) == [status |-> status, body |-> body, sent |-> sent]

\* the statements sent until statement number failing throws (0: none throws)
SentUntil(statements, failing) ==
  IF failing \in 1..Len(statements) THEN SubSeq(statements, 1, failing)
  ELSE statements

\* the answer after the statements: the catch block's 500 when one threw
AnswerAfter(statements, failing, body) ==
  IF failing \in 1..Len(statements)
  THEN Answer(500, <<"error.message">>, SentUntil(statements, failing))
  ELSE Answer(200, body, statements)

\* POST /api/db/data: the table name check, the columns query, then the count
\* and data queries built from the table name
fetchTableData(req, failing) ==
  IF ~req.configured THEN Answer(400, <<"not configured">>, <<>>)
  ELSE IF ~isIdentifier(req.tableName)
  THEN Answer(400, <<"Invalid table name">>, <<>>)
  ELSE
    LET columnsStatement == Sql("columns", req.tableName, FALSE, <<>>, <<>>)
        columnNames == columnsResult(req.tableName)
        validOrderBy ==
          IF /\ req.orderBy # Undefined
             /\ req.orderBy \in Range(columnNames)
             /\ isIdentifier(req.orderBy)
          THEN <<req.orderBy>> ELSE <<>>
        searchConditions ==
          IF req.search THEN SelectSeq(columnNames, isIdentifier) ELSE <<>>
        countQuery == Sql("COUNT", req.tableName, TRUE, <<>>, searchConditions)
        dataQuery == Sql("SELECT", req.tableName, TRUE, validOrderBy, searchConditions)
    IN IF failing = 1 THEN Answer(500, <<"error.message">>, <<columnsStatement>>)
       ELSE IF columnNames = <<>>
       THEN Answer(404, <<"not found">>, <<columnsStatement>>)
       ELSE AnswerAfter(<<columnsStatement, countQuery, dataQuery>>,
                        IF failing \in {2, 3} THEN 3 ELSE 0, <<"rows">>)

\* isValidColumn of POST /api/db/row
isValidColumn(col, validColumns) == col \in validColumns /\ isIdentifier(col)

\* Object.entries(record).filter(([key]) => isValidColumn(key))
validEntries(record, validColumns) ==
  LET Valid(e) == isValidColumn(e.key, validColumns)
  IN SelectSeq(record.entries, Valid)

\* !record || Object.keys(record).length === 0
isMissing(record) == ~record.defined \/ record.entries = <<>>

\* mutateRow whose update and delete only ask for a where object that is there
mutateRowAnyWhere(req, failing) ==
  IF ~req.configured THEN Answer(400, <<"not configured">>, <<>>)
  ELSE IF ~isIdentifier(req.tableName)
  THEN Answer(400, <<"Invalid table name">>, <<>>)
  ELSE
    LET columnsStatement == Sql("columns", req.tableName, FALSE, <<>>, <<>>)
        validColumns == Range(columnsResult(req.tableName))
        validData == Keys(validEntries(req.data, validColumns))
        validWhere == Keys(validEntries(req.where, validColumns))
    IN IF failing = 1 THEN Answer(500, <<"error.message">>, <<columnsStatement>>)
       ELSE IF req.operation = "insert"
       THEN IF isMissing(req.data)
            THEN Answer(400, <<"Data is required">>, <<columnsStatement>>)
            ELSE IF validData = <<>>
            THEN Answer(400, <<"No valid columns provided">>, <<columnsStatement>>)
            ELSE AnswerAfter(<<columnsStatement,
                               Sql("INSERT", req.tableName, TRUE, validData, <<>>)>>,
                             failing, <<"row">>)
       ELSE IF req.operation = "update"
       THEN IF isMissing(req.data)
            THEN Answer(400, <<"Data is required">>, <<columnsStatement>>)
            ELSE IF ~req.where.defined
            THEN Answer(400, <<"Where clause is required">>, <<columnsStatement>>)
            ELSE IF validData = <<>>
            THEN Answer(400, <<"No valid data columns provided">>, <<columnsStatement>>)
            ELSE AnswerAfter(<<columnsStatement,
                               Sql("UPDATE", req.tableName, TRUE, validData, validWhere)>>,
                             failing, <<"rows">>)
       ELSE IF ~req.where.defined
            THEN Answer(400, <<"Where clause is required">>, <<columnsStatement>>)
            ELSE AnswerAfter(<<columnsStatement,
                               Sql("DELETE", req.tableName, TRUE, <<>>, validWhere)>>,
                             failing, <<"deleted">>)

\* POST /api/db/row: the table name check, the columns query, then the
\* INSERT, UPDATE or DELETE built from the valid entries of data and where
mutateRow(req, failing) ==
  IF ~req.configured THEN Answer(400, <<"not configured">>, <<>>)
  ELSE IF ~isIdentifier(req.tableName)
  THEN Answer(400, <<"Invalid table name">>, <<>>)
  ELSE
    LET columnsStatement == Sql("columns", req.tableName, FALSE, <<>>, <<>>)
        validColumns == Range(columnsResult(req.tableName))
        validData == Keys(validEntries(req.data, validColumns))
        validWhere == Keys(validEntries(req.where, validColumns))
    IN IF failing = 1 THEN Answer(500, <<"error.message">>, <<columnsStatement>>)
       ELSE IF req.operation = "insert"
       THEN IF isMissing(req.data)
            THEN Answer(400, <<"Data is required">>, <<columnsStatement>>)
            ELSE IF validData = <<>>
            THEN Answer(400, <<"No valid columns provided">>, <<columnsStatement>>)
            ELSE AnswerAfter(<<columnsStatement,
                               Sql("INSERT", req.tableName, TRUE, validData, <<>>)>>,
                             failing, <<"row">>)
       ELSE IF req.operation = "update"
       THEN IF isMissing(req.data)
            THEN Answer(400, <<"Data is required">>, <<columnsStatement>>)
            ELSE IF isMissing(req.where)
            THEN Answer(400, <<"Where clause is required">>, <<columnsStatement>>)
            ELSE IF validData = <<>>
            THEN Answer(400, <<"No valid data columns provided">>, <<columnsStatement>>)
            ELSE IF validWhere = <<>>
            THEN Answer(400, <<"No valid where columns provided">>, <<columnsStatement>>)
            ELSE AnswerAfter(<<columnsStatement,
                               Sql("UPDATE", req.tableName, TRUE, validData, validWhere)>>,
                             failing, <<"rows">>)
       ELSE IF isMissing(req.where)
            THEN Answer(400, <<"Where clause is required">>, <<columnsStatement>>)
            ELSE IF validWhere = <<>>
            THEN Answer(400, <<"No valid where columns provided">>, <<columnsStatement>>)
            ELSE AnswerAfter(<<columnsStatement,
                               Sql("DELETE", req.tableName, TRUE, <<>>, validWhere)>>,
                             failing, <<"deleted">>)

\* SELECT table_name FROM information_schema.tables ...
tablesStatement == Sql("tables", <<>>, FALSE, <<>>, <<>>)

\* the statements of one iteration of the quick-migrate loop: the columns
\* query, DROP, CREATE and, with shouldCopyData, SELECT and the INSERT of a row
executorStatements(t, flags) ==
  <<Sql("columns", t, FALSE, <<>>, <<>>),
    Sql("DROP", t, TRUE, <<>>, <<>>),
    Sql("CREATE", t, TRUE, columnsResult(t), <<>>)>>
  \o (IF shouldCopyData(flags, t)
      THEN <<Sql("SELECT", t, TRUE, <<>>, <<>>),
             Sql("INSERT", t, TRUE, columnsResult(t), <<>>)>>
      ELSE <<>>)

\* POST /api/quick-migrate on the tables the source lists; a statement that
\* throws inside the loop ends that table only
quickMigrate(req, names, failing) ==
  IF ~req.configured THEN Answer(400, <<"not configured">>, <<>>)
  ELSE IF failing = 1 THEN Answer(500, <<"error.message">>, <<tablesStatement>>)
  ELSE
    LET ts == TablesToMigrate(names, req.tablePattern, req.selectedTables)
        perTable(t) ==
          SentUntil(executorStatements(t, req.tableDataFlags), failing - 1)
    IN Answer(200, <<"results">>,
              <<tablesStatement>> \o Concat([i \in DOMAIN ts |-> perTable(ts[i])]))

\* the statements /api/db/backup sends for one table
backupStatements(t) ==
  <<Sql("columns", t, FALSE, <<>>, <<>>), Sql("SELECT", t, TRUE, <<>>, <<>>)>>

\* the SQL text /api/db/backup writes into the dump for one table of one row
dumpOf(t) ==
  <<Sql("DROP", t, TRUE, <<>>, <<>>),
    Sql("CREATE", t, TRUE, columnsResult(t), <<>>),
    Sql("INSERT", t, TRUE, columnsResult(t), <<>>)>>

\* POST /api/db/backup: the dump of the selected tables; a statement that
\* throws inside the loop leaves a comment in the dump instead of the table
dbBackup(req, names, failing) ==
  IF ~req.configured THEN Answer(400, <<"not configured">>, <<>>)
  ELSE IF failing = 1 THEN Answer(500, <<"error.message">>, <<tablesStatement>>)
  ELSE
    LET ts == selectedOnly(SelectSeq(names, LAMBDA n : ~isSystemTable(n)),
                           req.selectedTables)
        perTable(t) == SentUntil(backupStatements(t), failing - 1)
        dump(t) == IF failing = 2 THEN <<>>
                   ELSE IF failing = 3 THEN SubSeq(dumpOf(t), 1, 2)
                   ELSE dumpOf(t)
    IN Answer(200, Concat([i \in DOMAIN ts |-> dump(ts[i])]),
              <<tablesStatement>> \o Concat([i \in DOMAIN ts |-> perTable(ts[i])]))

\* the number of the statement that is made to throw (0: none); the longest
\* handler sends six statements
Failings == 0..6

\* a table of the database: its name and its columns in ordinal order
Catalog(table, columns) == [table |-> table, columns |-> columns]

\* a request naming a table, or meeting a table of that name in the database
NamedRequests(n) ==
  {[endpoint |-> "data", configured |-> c, tableName |-> n, orderBy |-> o,
    search |-> s] :
     c \in BOOLEAN, o \in {Undefined, Id, Dashed}, s \in BOOLEAN}
  \cup
  {[endpoint |-> "row", configured |-> c, tableName |-> n, operation |-> o,
    data |-> Record(<<Entry(Id, "v")>>), where |-> Record(<<Entry(Id, "v")>>)] :
     c \in BOOLEAN, o \in {"insert", "update", "delete"}}
  \cup
  {[endpoint |-> "migrate", configured |-> c, tablePattern |-> Undefined,
    selectedTables |-> NoList, tableDataFlags |-> f] :
     c \in BOOLEAN,
     f \in {NoFlags, [defined |-> TRUE, flags |-> [k \in FlagNames |-> "absent"]]}}
  \cup
  {[endpoint |-> "backup", configured |-> c, selectedTables |-> NoList] :
     c \in BOOLEAN}

\* one request on a database holding one table: a request naming a table
\* meets that table or another one, a request that lists the tables meets a
\* table of any name
InitNames ==
  /\ MatcherIdle
  /\ runs = <<>>
  /\ MigrateIdle
  /\ DiscoveryIdle /\ DryRunIdle /\ DdlIdle /\ ScriptIdle /\ UiIdle /\ RequestIdle
  /\ \E n \in IdentNames :
       /\ dbReq \in NamedRequests(n)
       /\ IF dbReq.endpoint \in {"data", "row"}
          THEN dbCatalog \in {Catalog(t, <<Id, Dashed>>) : t \in {n, Orders}}
          ELSE n # <<>> /\ dbCatalog = Catalog(n, <<Id, Dashed>>)
  /\ dbSent = <<>>
  /\ dbStatus = 0
  /\ dbBody = <<>>

\* what the database manager handlers leave alone
ManagerFrame ==
  UNCHANGED <<matcherVars, migrateVars, discoveryVars, dryRunVars, ddlVars,
              scriptVars, uiVars, requestVars, runs, dbReq, dbCatalog>>

\* POST /api/db/data
FetchTableData ==
  /\ dbStatus = 0
  /\ dbReq.endpoint = "data"
  /\ \E failing \in Failings :
       LET answer == fetchTableData(dbReq, failing)
       IN /\ dbStatus' = answer.status
          /\ dbBody' = answer.body
          /\ dbSent' = answer.sent
  /\ ManagerFrame

\* POST /api/db/row
MutateRow ==
  /\ dbStatus = 0
  /\ dbReq.endpoint = "row"
  /\ \E failing \in Failings :
       LET answer == mutateRow(dbReq, failing)
       IN /\ dbStatus' = answer.status
          /\ dbBody' = answer.body
          /\ dbSent' = answer.sent
  /\ ManagerFrame

\* POST /api/quick-migrate
QuickMigrate ==
  /\ dbStatus = 0
  /\ dbReq.endpoint = "migrate"
  /\ \E failing \in Failings :
       LET answer == quickMigrate(dbReq, <<dbCatalog.table>>, failing)
       IN /\ dbStatus' = answer.status
          /\ dbBody' = answer.body
          /\ dbSent' = answer.sent
  /\ ManagerFrame

\* POST /api/db/backup
DbBackup ==
  /\ dbStatus = 0
  /\ dbReq.endpoint = "backup"
  /\ \E failing \in Failings :
       LET answer == dbBackup(dbReq, <<dbCatalog.table>>, failing)
       IN /\ dbStatus' = answer.status
          /\ dbBody' = answer.body
          /\ dbSent' = answer.sent
  /\ ManagerFrame

NextNames ==
  \/ FetchTableData
  \/ MutateRow
  \/ QuickMigrate
  \/ DbBackup

(***************************************************************************)
(* One request of POST /api/db/row.                                        *)
(***************************************************************************)
\* the objects a request carries as data or where: up to MaxCols entries with
\* keys that differ, over a column that is valid, one that exists and is
\* outside the identifier grammar, and one the table does not have
RowKeys == {Id, Dashed, Ghost}
RowRecords(values) ==
  {NoRecord} \cup
  {Record(es) : es \in {e \in SeqsUpTo({Entry(k, v) : k \in RowKeys, v \in values},
                                       MaxCols) :
                          \A i, j \in DOMAIN e : e[i].key = e[j].key => i = j}}

\* a body rowMutationSchema accepts
RowRequests ==
  {[endpoint |-> "row", configured |-> c, tableName |-> n, operation |-> o,
    data |-> d, where |-> w] :
     c \in BOOLEAN, n \in {Orders, Dashed}, o \in {"insert", "update", "delete"},
     d \in RowRecords({"v"}), w \in RowRecords({"v", Null})}

\* one row request on a database holding the table orders, or not holding it
InitRow ==
  /\ MatcherIdle
  /\ runs = <<>>
  /\ MigrateIdle
  /\ DiscoveryIdle /\ DryRunIdle /\ DdlIdle /\ ScriptIdle /\ UiIdle /\ RequestIdle
  /\ dbReq \in RowRequests
  /\ dbCatalog \in {Catalog(Orders, cs) : cs \in {<<>>, <<Id, Dashed>>, <<Name, Id>>}}
  /\ dbSent = <<>>
  /\ dbStatus = 0
  /\ dbBody = <<>>

NextRow == MutateRow

(***************************************************************************)
(* POST /api/db/query.                                                     *)
(***************************************************************************)
\* the characters String.prototype.trim removes, as far as queries use them
WhiteSpace == {" ", "\t", "\n"}

RECURSIVE trimStart(_)
trimStart(s) ==
  IF s # <<>> /\ Head(s) \in WhiteSpace THEN trimStart(Tail(s)) ELSE s

RECURSIVE trimEnd(_)
trimEnd(s) ==
  IF s # <<>> /\ s[Len(s)] \in WhiteSpace
  THEN trimEnd(SubSeq(s, 1, Len(s) - 1)) ELSE s

\* String.prototype.trim
trim(s) == trimEnd(trimStart(s))

\* String.prototype.toUpperCase on the characters queries are built from
\* ("U017F" stands for the long s, U+017F, whose upper case is S)
toUpperCase(s) ==
  LET Upper(c) ==
        CASE c = "s" -> "S" [] c = "U017F" -> "S" [] c = "e" -> "E" [] c = "l" -> "L"
          [] c = "c" -> "C" [] c = "t" -> "T" [] c = "x" -> "X" [] OTHER -> c
  IN [i \in DOMAIN s |-> Upper(s[i])]

SELECT == <<"S", "E", "L", "E", "C", "T">>

\* dbSelectionSchema.parse(db || "source"): the selection, or failure
dbSelection(db) ==
  LET value == IF db \in {"absent", ""} THEN "source" ELSE db
  IN [ok |-> value \in {"source", "destination"}, value |-> value]

\* !query || typeof query !== 'string'
queryMissing(query) ==
  \/ query.kind \in {"undefined", "null"}
  \/ query.kind = "number" /\ query.text = <<"0">>
  \/ query.kind = "string" /\ query.text = <<>>
  \/ query.kind # "string"

\* the handler that tests the first letter of the query only
runQueryFirstLetter(req, failing) ==
  LET selection == dbSelection(req.db)
  IN IF ~selection.ok THEN Answer(500, <<"error.message">>, <<>>)
     ELSE IF ~req.configured[selection.value]
     THEN Answer(400, <<"not configured">>, <<>>)
     ELSE IF queryMissing(req.query)
     THEN Answer(400, <<"Query is required">>, <<>>)
     ELSE IF ~startsWith(toUpperCase(trim(req.query.text)), <<"S">>)
     THEN Answer(400, <<"Only SELECT queries are allowed">>, <<>>)
     ELSE AnswerAfter(<<[op |-> "query", db |-> selection.value,
                         text |-> req.query.text]>>,
                      failing, <<"rows">>)

\* POST /api/db/query: the selection of the database, the checks on the query
\* and the statement
runQuery(req, failing) ==
  LET selection == dbSelection(req.db)
  IN IF ~selection.ok THEN Answer(500, <<"error.message">>, <<>>)
     ELSE IF ~req.configured[selection.value]
     THEN Answer(400, <<"not configured">>, <<>>)
     ELSE IF queryMissing(req.query)
     THEN Answer(400, <<"Query is required">>, <<>>)
     ELSE IF ~startsWith(toUpperCase(trim(req.query.text)), SELECT)
     THEN Answer(400, <<"Only SELECT queries are allowed">>, <<>>)
     ELSE AnswerAfter(<<[op |-> "query", db |-> selection.value,
                         text |-> req.query.text]>>,
                      failing, <<"rows">>)

\* the first word of a query, and what may stand before and after it
QueryWords ==
  {<<>>,
   <<"S", "E", "L", "E", "C", "T">>,
   <<"s", "e", "l", "e", "c", "t">>,
   <<"S", "e", "l", "E", "c", "t">>,
   <<"U017F", "e", "l", "e", "c", "t">>,
   <<"S", "E", "L", "E", "C">>,
   <<"S", "E", "L", "E", "C", "T", "X">>,
   <<"X", "S", "E", "L", "E", "C", "T">>,
   <<"S", "E", "L", " ", "E", "C", "T">>,
   <<"D", "E", "L", "E", "T", "E">>}
QueryMargins == SeqsUpTo({" ", "\n", "x"}, MaxMargin)

\* req.body.query
Queries ==
  {[kind |-> k, text |-> <<>>] : k \in {"undefined", "null", "object"}}
  \cup {[kind |-> "number", text |-> t] : t \in {<<"0">>, <<"5">>}}
  \cup {[kind |-> "string", text |-> before \o word \o after] :
          before \in QueryMargins, word \in QueryWords, after \in QueryMargins}

InitQuery ==
  /\ MatcherIdle
  /\ runs = <<>>
  /\ MigrateIdle
  /\ DiscoveryIdle /\ DryRunIdle /\ DdlIdle /\ ScriptIdle /\ UiIdle /\ RequestIdle
  /\ dbReq \in [endpoint : {"query"},
                db : {"absent", "", "source", "destination", "other"},
                configured : {[source |-> TRUE, destination |-> TRUE],
                              [source |-> TRUE, destination |-> FALSE],
                              [source |-> FALSE, destination |-> TRUE]},
                query : Queries]
  /\ dbCatalog = <<>>
  /\ dbSent = <<>>
  /\ dbStatus = 0
  /\ dbBody = <<>>

\* POST /api/db/query
RunQuery ==
  /\ dbStatus = 0
  /\ dbReq.endpoint = "query"
  /\ \E failing \in {0, 1} :
       LET answer == runQuery(dbReq, failing)
       IN /\ dbStatus' = answer.status
          /\ dbBody' = answer.body
          /\ dbSent' = answer.sent
  /\ ManagerFrame

NextQuery == RunQuery

(***************************************************************************)
(* Two POST /api/quick-migrate requests in flight against the same         *)
(* destination, each migrating the table orders with its rows.  Every      *)
(* await of the loop body is one step; a statement fails when the state of *)
(* the destination makes it fail.                                          *)
(***************************************************************************)
Runs == {1, 2}

\* a request that entered the loop body for orders
RunAt(at, rows, row, outcome) ==
  [pc |-> at, data |-> rows, rowIdx |-> row, outcome |-> outcome]

InitConcurrent ==
  /\ MatcherIdle
  /\ ManagerIdle
  /\ DiscoveryIdle /\ DryRunIdle /\ DdlIdle /\ ScriptIdle /\ UiIdle /\ RequestIdle
  /\ hasOldDb = TRUE
  /\ hasNewDb = TRUE
  /\ tablePattern = Undefined
  /\ selectedTables = NoList
  /\ tableDataFlags = [defined |-> TRUE, flags |-> [n \in FlagNames |-> "absent"]]
  /\ pc = "concurrent"
  /\ tables = <<Orders>>
  /\ tablesToMigrate = TablesToMigrate(tables, tablePattern, selectedTables)
  /\ idx = 1
  /\ \E n \in 1..MaxRows : data = SourceRows(n)
  /\ rowIdx = 0
  /\ rowsCopied = 0
  /\ results = <<>>
  /\ response = NoResponse
  /\ dest \in {[n \in DbTableNames |-> Absent], [n \in DbTableNames |-> OldTable]}
  /\ trace = <<>>
  /\ runs = [r \in Runs |-> RunAt("columns", <<>>, 0, "none")]

\* what the steps of a run leave alone
ConcurrentFrame ==
  UNCHANGED <<matcherVars, managerVars, discoveryVars, dryRunVars, ddlVars,
              scriptVars, uiVars, requestVars, hasOldDb, hasNewDb, tablePattern,
              selectedTables, tableDataFlags, pc, tables, tablesToMigrate, idx,
              data, rowIdx, rowsCopied, results, response>>

\* await sourceSql`SELECT column_name ...`
RunColumns(r) ==
  /\ runs[r].pc = "columns"
  /\ runs' = [runs EXCEPT ![r].pc = "drop"]
  /\ trace' = Append(trace, Statement(r, "columns", tableName, TRUE, 0))
  /\ UNCHANGED dest
  /\ ConcurrentFrame

\* RunDrop of a handler that takes a lock on the destination table: it waits
\* while another request is between its DROP and its outcome
RunDropLocked(r) ==
  /\ runs[r].pc = "drop"
  /\ \A o \in Runs \ {r} : runs[o].pc \in {"columns", "drop", "done"}
  /\ runs' = [runs EXCEPT ![r].pc = "create"]
  /\ dest' = [dest EXCEPT ![tableName] = Absent]
  /\ trace' = Append(trace, Statement(r, "DROP", tableName, TRUE, 0))
  /\ ConcurrentFrame

\* await destSql(`DROP TABLE IF EXISTS "${tableName}" CASCADE`)
RunDrop(r) ==
  /\ runs[r].pc = "drop"
  /\ runs' = [runs EXCEPT ![r].pc = "create"]
  /\ dest' = [dest EXCEPT ![tableName] = Absent]
  /\ trace' = Append(trace, Statement(r, "DROP", tableName, TRUE, 0))
  /\ ConcurrentFrame

\* await destSql(`CREATE TABLE "${tableName}" (...)`): fails when the table
\* exists; the catch records the error outcome
RunCreate(r) ==
  /\ runs[r].pc = "create"
  /\ IF dest[tableName].exists
     THEN /\ runs' = [runs EXCEPT ![r].pc = "done", ![r].outcome = "error"]
          /\ trace' = Append(trace, Statement(r, "CREATE", tableName, FALSE, 0))
          /\ UNCHANGED dest
     ELSE /\ runs' = [runs EXCEPT ![r].pc =
                        IF shouldCopyData(tableDataFlags, tableName)
                        THEN "select" ELSE "done",
                      ![r].outcome =
                        IF shouldCopyData(tableDataFlags, tableName)
                        THEN "none" ELSE "success"]
          /\ dest' = [dest EXCEPT ![tableName] = EmptyTable]
          /\ trace' = Append(trace, Statement(r, "CREATE", tableName, TRUE, 0))
  /\ ConcurrentFrame

\* await sourceSql(`SELECT * FROM "${tableName}"`)
RunSelect(r) ==
  /\ runs[r].pc = "select"
  /\ runs' = [runs EXCEPT ![r].pc = "insert", ![r].data = data, ![r].rowIdx = 1]
  /\ trace' = Append(trace, Statement(r, "SELECT", tableName, TRUE, Len(data)))
  /\ UNCHANGED dest
  /\ ConcurrentFrame

\* await destSql(`INSERT INTO "${tableName}" ...`): fails when the table is
\* not there; after the last row the success outcome is recorded
RunInsert(r) ==
  /\ runs[r].pc = "insert"
  /\ LET row == runs[r].data[runs[r].rowIdx]
     IN IF ~dest[tableName].exists
        THEN /\ runs' = [runs EXCEPT ![r].pc = "done", ![r].outcome = "error"]
             /\ trace' = Append(trace, Statement(r, "INSERT", tableName, FALSE, row))
             /\ UNCHANGED dest
        ELSE /\ dest' = [dest EXCEPT ![tableName].rows = Append(@, row)]
             /\ trace' = Append(trace, Statement(r, "INSERT", tableName, TRUE, row))
             /\ runs' = IF runs[r].rowIdx < Len(runs[r].data)
                        THEN [runs EXCEPT ![r].rowIdx = @ + 1]
                        ELSE [runs EXCEPT ![r].pc = "done", ![r].outcome = "success"]
  /\ ConcurrentFrame

\* the next statement of request r
RunStep(r) ==
  \/ RunColumns(r)
  \/ RunDrop(r)
  \/ RunCreate(r)
  \/ RunSelect(r)
  \/ RunInsert(r)

NextConcurrent == \E r \in Runs : RunStep(r)

(***************************************************************************)
(* GET /api/db/structure/:tableName.  The catalogue holds the tables       *)
(* orders and items of schema public, each with the columns id and name,   *)
(* and key constraints on them.                                            *)
(***************************************************************************)
\* a row of information_schema.table_constraints with its key columns
Constraint(name, type, table, columns) ==
  [name |-> name, type |-> type, table |-> table, columns |-> columns]

\* the key constraints a database may hold
ConstraintUniverse ==
  {Constraint("orders_pkey", "PRIMARY KEY", Orders, c) :
     c \in {{Id}, {Name}, {Id, Name}}}
  \cup {Constraint("items_pkey", "PRIMARY KEY", Items, {Id}),
        Constraint("orders_name_key", "UNIQUE", Orders, {Name}),
        Constraint("items_fk", "FOREIGN KEY", Items, {Name}),
        Constraint("orders_pkey", "FOREIGN KEY", Items, {Name}),
        Constraint("orders_pkey", "FOREIGN KEY", Items, {Id})}

\* what PostgreSQL enforces: a constraint name is unique among the constraints
\* of one table, a table has one primary key at most, and the name of a
\* primary key or unique constraint, being the name of its index, is unique
\* among those of the schema
ValidConstraints(S) ==
  \A a, b \in S :
    a # b =>
      /\ ~(a.table = b.table /\ a.name = b.name)
      /\ ~(a.table = b.table /\ a.type = "PRIMARY KEY" /\ b.type = "PRIMARY KEY")
      /\ ~(a.name = b.name /\ a.type \in {"PRIMARY KEY", "UNIQUE"}
                           /\ b.type \in {"PRIMARY KEY", "UNIQUE"})

\* the columns of a table, in ordinal order
StructureColumns(t) == IF t \in {Orders, Items} THEN <<Id, Name>> ELSE <<>>

\* the rows of information_schema.key_column_usage
keyColumnUsage(constraints) ==
  UNION {{[constraint_name |-> c.name, table_name |-> c.table, column_name |-> col] :
            col \in c.columns} : c \in constraints}

\* the subquery pk: key_column_usage joined to the PRIMARY KEY constraints of
\* tableName on constraint_name and table_schema
pkRows(constraints, t) ==
  {k \in keyColumnUsage(constraints) :
     \E tc \in constraints :
       /\ tc.type = "PRIMARY KEY"
       /\ tc.table = t
       /\ tc.name = k.constraint_name}

\* the columns query: the columns of tableName LEFT JOIN pk ON column_name,
\* ORDER BY ordinal_position; a column matched by n rows of pk comes n times
structureRows(constraints, t) ==
  LET columns == StructureColumns(t)
      matches(col) ==
        Cardinality({k \in pkRows(constraints, t) : k.column_name = col})
      rowsOf(i) ==
        IF matches(columns[i]) = 0
        THEN <<[name |-> columns[i], isPrimaryKey |-> FALSE, ordinalPosition |-> i]>>
        ELSE [n \in 1..matches(columns[i]) |->
                [name |-> columns[i], isPrimaryKey |-> TRUE, ordinalPosition |-> i]]
  IN Concat([i \in DOMAIN columns |-> rowsOf(i)])

\* GET /api/db/structure/:tableName: the columns query, 404 for no row, the
\* statistics query, then the structure
tableStructure(req, constraints, failing) ==
  IF ~req.configured THEN Answer(400, <<"not configured">>, <<>>)
  ELSE
    LET columnsStatement == Sql("structure", req.tableName, FALSE, <<>>, <<>>)
        statsStatement == Sql("stats", req.tableName, FALSE, <<>>, <<>>)
        tableColumns == structureRows(constraints, req.tableName)
        flagged == SelectSeq(tableColumns, LAMBDA c : c.isPrimaryKey)
    IN IF failing = 1 THEN Answer(500, <<"error.message">>, <<columnsStatement>>)
       ELSE IF tableColumns = <<>>
       THEN Answer(404, <<"not found">>, <<columnsStatement>>)
       ELSE AnswerAfter(<<columnsStatement, statsStatement>>, failing,
                        <<[tableName |-> req.tableName,
                           columns |-> tableColumns,
                           primaryKeys |-> [i \in DOMAIN flagged |-> flagged[i].name]]>>)

InitStructure ==
  /\ MatcherIdle
  /\ runs = <<>>
  /\ MigrateIdle
  /\ DiscoveryIdle /\ DryRunIdle /\ DdlIdle /\ ScriptIdle /\ UiIdle /\ RequestIdle
  /\ dbReq \in [endpoint : {"structure"}, configured : BOOLEAN,
                tableName : {Orders, Items, Users}]
  /\ dbCatalog \in {S \in SUBSET ConstraintUniverse : ValidConstraints(S)}
  /\ dbSent = <<>>
  /\ dbStatus = 0
  /\ dbBody = <<>>

\* GET /api/db/structure/:tableName
TableStructure ==
  /\ dbStatus = 0
  /\ dbReq.endpoint = "structure"
  /\ \E failing \in 0..2 :
       LET answer == tableStructure(dbReq, dbCatalog, failing)
       IN /\ dbStatus' = answer.status
          /\ dbBody' = answer.body
          /\ dbSent' = answer.sent
  /\ ManagerFrame

NextStructure == TableStructure

(***************************************************************************)
(* formatBytes.  A byte count is written in base 1024 with two significant *)
(* digits: hi * 1024^exp + lo * 1024^(exp - 1); for these counts the       *)
(* floating-point logarithm, division and product of the code are exact.   *)
(***************************************************************************)
\* const k = 1024
kBase == 1024

\* const sizes = ['Bytes', 'KB', 'MB', 'GB', 'TB']
sizes ==
  <<<<"B", "y", "t", "e", "s">>, <<"K", "B">>, <<"M", "B">>, <<"G", "B">>,
    <<"T", "B">>>>

\* a byte count
Bytes(exp, hi, lo) == [exp |-> exp, hi |-> hi, lo |-> lo]
ZeroBytes == Bytes(0, 0, 0)

\* the byte counts formatted: pg_total_relation_size is a bigint
ByteCounts ==
  {ZeroBytes}
  \cup {Bytes(0, hi, 0) : hi \in {1, 2, 512, 1023}}
  \cup {Bytes(exp, hi, lo) :
          exp \in 1..5, hi \in {1, 2, 512, 1023}, lo \in {0, 5, 128, 512, 1023}}

RECURSIVE decimal(_)
\* the decimal digits of a natural number
decimal(n) ==
  LET digit == <<"0", "1", "2", "3", "4", "5", "6", "7", "8", "9">>[(n % 10) + 1]
  IN IF n < 10 THEN <<digit>> ELSE decimal(n \div 10) \o <<digit>>

\* the text of the number hundredths / 100, as string concatenation writes it
numberText(hundredths) ==
  LET whole == decimal(hundredths \div 100)
      fraction == hundredths % 100
  IN IF fraction = 0 THEN whole
     ELSE IF fraction % 10 = 0 THEN whole \o <<".">> \o decimal(fraction \div 10)
     ELSE whole \o <<".">> \o decimal(fraction \div 10) \o decimal(fraction % 10)

\* Math.floor(Math.log(bytes) / Math.log(k))
unitIndex(bytes) == bytes.exp

\* Math.round((bytes / Math.pow(k, i)) * 100)
roundedHundredths(bytes) ==
  bytes.hi * 100 + ((bytes.lo * 100 + kBase \div 2) \div kBase)

\* sizes[i]: undefined past the end of the array
sizeAt(i) ==
  IF i + 1 \in DOMAIN sizes THEN sizes[i + 1]
  ELSE <<"u", "n", "d", "e", "f", "i", "n", "e", "d">>

formatBytes(bytes) ==
  IF bytes = ZeroBytes THEN <<"0", " ">> \o sizes[1]
  ELSE numberText(roundedHundredths(bytes)) \o <<" ">> \o sizeAt(unitIndex(bytes))

InitFormat ==
  /\ MatcherIdle
  /\ runs = <<>>
  /\ MigrateIdle
  /\ DiscoveryIdle /\ DryRunIdle /\ DdlIdle /\ ScriptIdle /\ UiIdle /\ RequestIdle
  /\ dbReq \in [endpoint : {"tables"}, configured : BOOLEAN, size_bytes : ByteCounts]
  /\ dbCatalog = <<>>
  /\ dbSent = <<>>
  /\ dbStatus = 0
  /\ dbBody = <<>>

\* GET /api/db/tables on a database of one table: the size of the table is
\* formatted into the answer
ListTableSizes ==
  /\ dbStatus = 0
  /\ dbReq.endpoint = "tables"
  /\ \E failing \in {0, 1} :
       LET answer ==
             IF ~dbReq.configured THEN Answer(400, <<"not configured">>, <<>>)
             ELSE AnswerAfter(<<tablesStatement>>, failing,
                              <<formatBytes(dbReq.size_bytes)>>)
       IN /\ dbStatus' = answer.status
          /\ dbBody' = answer.body
          /\ dbSent' = answer.sent
  /\ ManagerFrame

NextFormat == ListTableSizes

(***************************************************************************)
(* Analyze, dry run and migrate on one source database: each reads the     *)
(* tables from another catalogue view.                                     *)
(***************************************************************************)
\* a relation of schema public: a base table or a view, with its column count
Relation(kind, columns) == [kind |-> kind, columns |-> columns]
RelationKinds ==
  {Relation("BASE TABLE", 1), Relation("BASE TABLE", 0), Relation("VIEW", 1)}

\* the source databases: at most MaxTables relations
SourceCatalogs ==
  UNION {[S -> RelationKinds] :
           S \in {T \in SUBSET {Orders, Items, PgStat} : Cardinality(T) <= MaxTables}}

\* pg_stat_user_tables WHERE schemaname = 'public' ORDER BY table_name: one
\* row per table, none for a view; table_name is schemaname || '.' || tablename
pgStatUserTables(catalog) ==
  LET ordered == OrderByName({n \in DOMAIN catalog : catalog[n].kind = "BASE TABLE"})
  IN [i \in DOMAIN ordered |-> Public \o ordered[i]]

\* information_schema.columns WHERE table_schema = 'public' ORDER BY
\* table_name, ordinal_position: the columns of tables and views
informationSchemaColumns(catalog) ==
  LET ordered == OrderByName({n \in DOMAIN catalog : catalog[n].columns > 0})
  IN [i \in DOMAIN ordered |-> IdColumn(ordered[i])]

\* information_schema.tables WHERE table_schema = 'public' AND table_type =
\* 'BASE TABLE', in any order
informationSchemaTables(catalog) ==
  {l \in DiscoveredLists :
     Range(l) = {n \in DOMAIN catalog : catalog[n].kind = "BASE TABLE"}}

\* POST /api/analyze: the names of the tables listed
analyzeTables(rows, pattern) ==
  LET names == [i \in DOMAIN rows |-> replaceFirst(rows[i], Public)]
  IN SelectSeq(SelectSeq(names, LAMBDA n : ~isSystemTable(n)),
               LAMBDA n : matchesPattern(n, pattern))

\* POST /api/dry-run: the names of the tables of the plan
dryRunTables(rows, pattern) ==
  LET built == buildPlan(rows, pattern)
  IN [i \in DOMAIN built |-> built[i].tableName]

\* the answer of one of the three endpoints
Listing(endpoint, names) == [endpoint |-> endpoint, tables |-> names]

\* the endpoints that answered
Answered == {dbBody[i].endpoint : i \in DOMAIN dbBody}

InitSources ==
  /\ MatcherIdle
  /\ runs = <<>>
  /\ MigrateIdle
  /\ DiscoveryIdle /\ DryRunIdle /\ DdlIdle /\ ScriptIdle /\ UiIdle /\ RequestIdle
  /\ dbReq \in [endpoint : {"migrator"}, tablePattern : MigratePatterns]
  /\ dbCatalog \in SourceCatalogs
  /\ dbSent = <<>>
  /\ dbStatus = 0
  /\ dbBody = <<>>

\* POST /api/analyze
AnalyzeSource ==
  /\ dbReq.endpoint = "migrator"
  /\ "analyze" \notin Answered
  /\ dbSent' = Append(dbSent, Sql("pg_stat_user_tables", <<>>, FALSE, <<>>, <<>>))
  /\ dbBody' = Append(dbBody,
                      Listing("analyze",
                              analyzeTables(pgStatUserTables(dbCatalog),
                                            dbReq.tablePattern)))
  /\ dbStatus' = 200
  /\ ManagerFrame

\* POST /api/dry-run
DryRunSource ==
  /\ dbReq.endpoint = "migrator"
  /\ "dry-run" \notin Answered
  /\ dbSent' = Append(dbSent, Sql("information_schema.columns", <<>>, FALSE, <<>>, <<>>))
  /\ dbBody' = Append(dbBody,
                      Listing("dry-run",
                              dryRunTables(informationSchemaColumns(dbCatalog),
                                           dbReq.tablePattern)))
  /\ dbStatus' = 200
  /\ ManagerFrame

\* POST /api/quick-migrate with no selection: the tables the executor loops over
MigrateSource ==
  /\ dbReq.endpoint = "migrator"
  /\ "migrate" \notin Answered
  /\ dbSent' = Append(dbSent, Sql("information_schema.tables", <<>>, FALSE, <<>>, <<>>))
  /\ \E listed \in informationSchemaTables(dbCatalog) :
       dbBody' = Append(dbBody,
                        Listing("migrate",
                                TablesToMigrate(listed, dbReq.tablePattern, NoList)))
  /\ dbStatus' = 200
  /\ ManagerFrame

NextSources ==
  \/ AnalyzeSource
  \/ DryRunSource
  \/ MigrateSource

(***************************************************************************)
(* The matcher as a state machine: one call of matchesPattern on arbitrary *)
(* arguments.                                                              *)
(***************************************************************************)
InitMatcher ==
  /\ mPattern \in Patterns
  /\ mName \in Names
  /\ mDone = FALSE
  /\ mResult = FALSE
  /\ MigrateIdle
  /\ ExtIdle

CallMatchesPattern ==
  /\ ~mDone
  /\ mDone' = TRUE
  /\ mResult' = matchesPattern(mName, mPattern)
  /\ UNCHANGED <<mPattern, mName>>
  /\ UNCHANGED <<migrateVars, extVars>>

NextMatcher == CallMatchesPattern

\* the exported script's filter applied to the same name and pattern: the
\* regex of TABLE_PATTERN accepts the name, rejects it, or does not compile
ScriptFilter ==
  /\ sResult = "pending"
  /\ LET regex == reCompile(TABLE_PATTERN(mPattern))
     IN sResult' = IF ~regex.ok THEN "raised"
                   ELSE IF reMatch(regex, mName) THEN "accepted" ELSE "rejected"
  /\ UNCHANGED <<matcherVars, migrateVars, discoveryVars, dryRunVars, ddlVars,
                 sourceTx, destTx, destWork, uiVars, requestVars, managerVars,
                 runs>>

NextFilters ==
  \/ CallMatchesPattern
  \/ ScriptFilter

SpecMatcher == InitMatcher /\ [][NextMatcher]_vars

\* the live matcher and the script's filter on the same arguments
SpecFilters == InitMatcher /\ [][NextFilters]_vars

(***************************************************************************)
(* The migration executor: one request, run to its response.               *)
(***************************************************************************)
Init == MatcherIdle /\ InitMigrate /\ ExtIdle

Next ==
  \/ RejectUnconfigured
  \/ DiscoverFails
  \/ Discover
  \/ FetchColumns
  \/ DropTable
  \/ CreateTable
  \/ SelectRows
  \/ InsertRow

Spec == Init /\ [][Next]_vars

(***************************************************************************)
(* Table discovery: one request to one endpoint.                           *)
(***************************************************************************)
SpecDiscovery == InitDiscovery /\ [][NextDiscovery]_vars

(***************************************************************************)
(* Dry runs: up to MaxDryRuns requests against one source and one          *)
(* destination.                                                            *)
(***************************************************************************)
SpecDryRun == InitDryRun /\ [][NextDryRun]_vars

(***************************************************************************)
(* The DDL of one source table, built by each producer.                    *)
(***************************************************************************)
SpecDdl == InitDdl /\ [][NextDdl]_vars

(***************************************************************************)
(* One run of the exported script's table loop.                            *)
(***************************************************************************)
SpecScript == InitScript /\ [][NextScript]_vars

(***************************************************************************)
(* The dashboard, from its first step on.                                  *)
(***************************************************************************)
SpecUi == InitUi /\ [][NextUi]_vars

(***************************************************************************)
(* One request carrying connection descriptors.                            *)
(***************************************************************************)
SpecRequest == InitRequest /\ [][NextRequest]_vars

(***************************************************************************)
(* One request of a handler that builds SQL text from a table name.        *)
(***************************************************************************)
SpecNames == InitNames /\ [][NextNames]_vars

(***************************************************************************)
(* One request of the row mutation endpoint.                               *)
(***************************************************************************)
SpecRow == InitRow /\ [][NextRow]_vars

(***************************************************************************)
(* One request of the ad hoc query endpoint.                               *)
(***************************************************************************)
SpecQuery == InitQuery /\ [][NextQuery]_vars

(***************************************************************************)
(* Two migrate requests interleaving their statements.                     *)
(***************************************************************************)
SpecConcurrent == InitConcurrent /\ [][NextConcurrent]_vars

(***************************************************************************)
(* One request of the table structure endpoint.                            *)
(***************************************************************************)
SpecStructure == InitStructure /\ [][NextStructure]_vars

(***************************************************************************)
(* One listing of the tables with their formatted sizes.                   *)
(***************************************************************************)
SpecFormat == InitFormat /\ [][NextFormat]_vars

(***************************************************************************)
(* Analyze, dry run and migrate asked of the same source with the same     *)
(* pattern, in any order.                                                  *)
(***************************************************************************)
SpecSources == InitSources /\ [][NextSources]_vars

(***************************************************************************)
(* Properties of the migration executor, checked under Spec.               *)
(***************************************************************************)
\* the table query has answered: the per-table loop was entered
Discovered == trace # <<>> /\ trace[1].op = "tables" /\ trace[1].ok

\* positions of the statements sent for table t, and of its pushed outcome
StatementsOf(t) ==
  {k \in DOMAIN trace : trace[k].db # "handler" /\ trace[k].table = t}
PushesOf(t) ==
  {k \in DOMAIN trace : trace[k].db = "handler" /\ trace[k].table = t}

\* the per-table flag of t is explicitly false
ExplicitlyDisabled(t) ==
  /\ tableDataFlags.defined
  /\ t \in DOMAIN tableDataFlags.flags
  /\ tableDataFlags.flags[t] = "false"

\* C1: once the tables are discovered, a failed statement of one table makes
\* that table's outcome an error and nothing else: the run answers 200 with
\* exactly one outcome per table of the migration set, in order, every table
\* was attempted, and a table's outcome is an error iff one of its own
\* statements failed.
C1_PerTableIsolation ==
  (pc = "done" /\ Discovered) =>
    /\ response = OkResponse(results)
    /\ Len(results) = Len(tablesToMigrate)
    /\ \A i \in DOMAIN results :
         /\ results[i].table = tablesToMigrate[i]
         /\ \E k \in StatementsOf(tablesToMigrate[i]) : trace[k].op = "columns"
         /\ (results[i].status = "error") <=>
              (\E k \in StatementsOf(tablesToMigrate[i]) : ~trace[k].ok)

\* a finished run of two tables: the first failed, the second was still copied
C1_Witness ==
  /\ pc = "done"
  /\ Len(results) = 2
  /\ results[1].status = "error"
  /\ results[2].status = "success"
  /\ results[2].rowsCopied > 0

\* C2: every table migrated with success whose flag is not explicitly false
\* had its rows read from the source (SELECT *), also when the request holds
\* no tableDataFlags at all.
C2_CopyByDefault ==
  \A k \in DOMAIN trace :
    (trace[k].db = "handler" /\ trace[k].ok /\ ~ExplicitlyDisabled(trace[k].table)) =>
      \E j \in 1..(k - 1) : trace[j].op = "SELECT" /\ trace[j].table = trace[k].table

\* C3: a failed DROP or CREATE of a table is followed by no SELECT and no
\* INSERT for that table, and its outcome is an error.
C3_NoCopyAfterFailedDdl ==
  \A k \in DOMAIN trace :
    (trace[k].db = "dest" /\ trace[k].op \in {"DROP", "CREATE"} /\ ~trace[k].ok) =>
      /\ \A j \in StatementsOf(trace[k].table) : trace[j].op \notin {"SELECT", "INSERT"}
      /\ \E j \in PushesOf(trace[k].table) : ~trace[j].ok
      /\ \A i \in DOMAIN results :
           results[i].table = trace[k].table => results[i].status = "error"

\* a finished run in which the CREATE of a table whose data was to be copied
\* failed
C3_Witness ==
  /\ pc = "done"
  /\ \E k \in DOMAIN trace :
       /\ trace[k].op = "CREATE"
       /\ ~trace[k].ok
       /\ shouldCopyData(tableDataFlags, trace[k].table)

\* the dest statements with operation op sent for table t before position j
DestBefore(t, op, j) ==
  {i \in 1..(j - 1) : trace[i].db = "dest" /\ trace[i].table = t /\ trace[i].op = op}

\* C4: for every table the destination gets DROP first, CREATE only after a
\* completed DROP, and the rows one by one in order only after a completed
\* CREATE; no statement is sent for a table after its outcome, and a statement
\* for another table than the statement before it is sent only after an
\* outcome was pushed in between (the entry before it is a push, and a push
\* follows a statement of its own table).
C4_SequentialPerTable ==
  \A j \in DOMAIN trace :
    /\ trace[j].db = "handler" =>
         trace[j - 1].db # "handler" /\ trace[j - 1].table = trace[j].table
    /\ (trace[j].db # "handler" /\ trace[j].op # "tables") =>
      LET t == trace[j].table
          op == trace[j].op
      IN /\ op = "DROP" =>
              DestBefore(t, "DROP", j) \cup DestBefore(t, "CREATE", j)
                \cup DestBefore(t, "INSERT", j) = {}
         /\ op = "CREATE" =>
              /\ \E i \in DestBefore(t, "DROP", j) : trace[i].ok
              /\ DestBefore(t, "CREATE", j) \cup DestBefore(t, "INSERT", j) = {}
         /\ op = "INSERT" =>
              /\ \E i \in DestBefore(t, "CREATE", j) : trace[i].ok
              /\ \A i \in DestBefore(t, "INSERT", j) : trace[i].ok
              /\ trace[j].n = Cardinality(DestBefore(t, "INSERT", j)) + 1
         /\ \A i \in 1..(j - 1) : ~(trace[i].db = "handler" /\ trace[i].table = t)
         /\ (trace[j - 1].db # "handler" /\ trace[j - 1].op # "tables") =>
              trace[j - 1].table = t

\* a finished run in which two tables each had rows inserted
C4_Witness ==
  /\ pc = "done"
  /\ \E i, j \in DOMAIN trace :
       /\ trace[i].op = "INSERT"
       /\ trace[j].op = "INSERT"
       /\ trace[i].table # trace[j].table

\* C5: every outcome has status success or error, rowsCopied iff success and
\* the error message iff error.
C5_OutcomeShape ==
  \A i \in DOMAIN results :
    /\ results[i].status \in {"success", "error"}
    /\ ("rowsCopied" \in DOMAIN results[i]) <=> (results[i].status = "success")
    /\ ("error" \in DOMAIN results[i]) <=> (results[i].status = "error")

\* an error outcome of a table some rows of which had already been inserted
C5_Witness ==
  \E i \in DOMAIN results :
    /\ results[i].status = "error"
    /\ \E k \in StatementsOf(results[i].table) : trace[k].op = "INSERT" /\ trace[k].ok

\* the tables the request asks for among the discovered ones
TableUniverse ==
  {name \in Range(tables) :
     /\ ~isSystemTable(name)
     /\ matchesPattern(name, tablePattern)
     /\ (selectedTables.defined /\ selectedTables.items # {}) =>
          name \in selectedTables.items}

\* C6: the migration set is the discovered tables minus the system tables,
\* restricted to the names matching the pattern and, with a non-empty
\* allow-list, to the allow-list; statements are sent and outcomes recorded for
\* those tables only, and at the end for all of them.
C6_TableUniverse ==
  LET universe == TableUniverse
  IN /\ Range(tablesToMigrate) = (IF Discovered THEN universe ELSE {})
     /\ \A k \in DOMAIN trace : trace[k].op # "tables" => trace[k].table \in universe
     /\ (pc = "done" /\ Discovered) =>
          {results[i].table : i \in DOMAIN results} = universe

\* a finished run whose allow-list names a matching table, a discovered table
\* that does not match the pattern and a table that was not discovered
C6_Witness ==
  /\ pc = "done"
  /\ tablePattern = <<"o", "r", "d", "%">>
  /\ selectedTables.items = {Orders, Items, PgStat}
  /\ Range(tables) = {Orders, Items}
  /\ Len(results) = 1

\* C7: when the rows of a table were read and its outcome is success,
\* rowsCopied is the number of rows read, one INSERT was sent per row read and
\* the destination table holds exactly those rows.
C7_RowsCopiedTally ==
  \A k \in DOMAIN trace :
    (trace[k].db = "handler" /\ trace[k].ok) =>
      \A j \in StatementsOf(trace[k].table) :
        (trace[j].op = "SELECT") =>
          LET t == trace[k].table
              inserts == {i \in StatementsOf(t) : trace[i].op = "INSERT"}
          IN /\ trace[k].n = trace[j].n
             /\ Cardinality(inserts) = trace[j].n
             /\ \A r \in 1..trace[j].n :
                  Cardinality({i \in inserts : trace[i].n = SourceRows(trace[j].n)[r]}) = 1
             /\ dest[t].rows = SourceRows(trace[j].n)
             /\ \A i \in DOMAIN results :
                  results[i].table = t => results[i].rowsCopied = trace[j].n

\* a success outcome of a table of MaxRows rows, all copied
C7_Witness ==
  \E i \in DOMAIN results :
    /\ results[i].status = "success"
    /\ results[i].rowsCopied = 2
    /\ \E k \in StatementsOf(results[i].table) : trace[k].op = "SELECT" /\ trace[k].n = 2

(***************************************************************************)
(* Properties of the pattern matcher, checked under SpecMatcher.           *)
(***************************************************************************)
Wildcards == {"%", "_"}

RECURSIVE LikeFrom(_, _, _, _)
\* SQL LIKE, case-insensitive: the pattern from i on matches the name from j on
LikeFrom(p, i, s, j) ==
  IF i > Len(p) THEN j > Len(s)
  ELSE IF p[i] = "%" THEN \E k \in j..(Len(s) + 1) : LikeFrom(p, i + 1, s, k)
  ELSE /\ j <= Len(s)
       /\ p[i] = "_" \/ Canonicalize(p[i]) = Canonicalize(s[j])
       /\ LikeFrom(p, i + 1, s, j + 1)

Like(s, p) == p = Undefined \/ p = <<>> \/ LikeFrom(p, 1, s, 1)

\* the pattern holds a character that quantifies in a regex and is outside
\* the escape class
HasQuantifier(p) == p # Undefined /\ \E i \in 1..Len(p) : p[i] \in Quantifiers

\* C8: for a pattern of wildcards and other characters (none of them `*` or
\* `?`, which C9 is about), matchesPattern is LIKE over the whole name: % any
\* sequence, _ exactly one character, case-insensitive, anchored.
C8_LikeSemantics ==
  (mDone /\ ~HasQuantifier(mPattern)) => (mResult = Like(mName, mPattern))

\* C9: a pattern without wildcards matches exactly the names equal to it up to
\* case: every character of it is taken literally.
C9_LiteralCharacters ==
  (/\ mDone
   /\ mPattern # Undefined
   /\ mPattern # <<>>
   /\ \A i \in 1..Len(mPattern) : mPattern[i] \notin Wildcards) =>
    (mResult <=>
       /\ Len(mName) = Len(mPattern)
       /\ \A i \in 1..Len(mPattern) : Canonicalize(mName[i]) = Canonicalize(mPattern[i]))

\* the regex source matchesPattern compiles for a pattern does not compile
FailsToCompile(p) ==
  /\ p # Undefined
  /\ p # <<>>
  /\ ~RegExpNew(substituteWildcards(escapeRegex(p))).ok

\* C10: a pattern whose regex does not compile matches every name.
C10_FailOpen ==
  (mDone /\ FailsToCompile(mPattern)) => mResult = TRUE

\* a call that returned for a pattern that does not compile and a name that
\* no reading of the pattern would match
C10_Witness ==
  /\ mDone
  /\ mPattern = <<"*", "a">>
  /\ mName = <<".", ".">>
  /\ FailsToCompile(mPattern)

(***************************************************************************)
(* Properties of table discovery, checked under SpecDiscovery.             *)
(***************************************************************************)
\* C11: whatever endpoint discovers the tables and whatever the pattern and
\* the allow-list are, no table it returns, plans, migrates or dumps has a
\* name starting with pg_ or with information_schema.
C11_NoSystemTableDiscovered ==
  \A i \in 1..Len(returned) : ~isSystemTable(returned[i])

(***************************************************************************)
(* Properties of the dry run, checked under SpecDryRun.                    *)
(***************************************************************************)
\* C12: a dry run sends no statement of any kind to the destination database
\* and leaves its state as it was, however many dry runs are made.
C12_DryRunLeavesDestination ==
  [][/\ dest' = dest
     /\ \A i \in (Len(trace) + 1)..Len(trace') : trace'[i].db # "destination"]_vars

\* two dry runs were answered, the latest with a plan that drops a table the
\* destination holds
C12_Witness ==
  /\ dryRuns >= 2
  /\ dryStatus = 200
  /\ \E i \in 1..Len(plan) : dest[plan[i].tableName] = OldTable

\* the tables a plan has to include: those with columns in the source that are
\* no system tables and match the pattern
Included(pattern) ==
  {t \in {r.table_name : r \in srcColumns} :
     ~isSystemTable(t) /\ matchesPattern(t, pattern)}

\* the row of table t at ordinal position k
ColumnAt(t, k) ==
  CHOOSE r \in srcColumns : r.table_name = t /\ r.ordinal_position = k

\* C13: in a plan every included table appears exactly once, in the order of
\* the table names the query returns, with exactly three actions: a DROP, a
\* CREATE whose column clauses are in ordinal position, and the data-copy
\* comment.
C13_PlanShape ==
  dryStatus = 200 =>
    /\ [i \in 1..Len(plan) |-> plan[i].tableName]
         = OrderByName(Included(tablePattern))
    /\ \A i \in 1..Len(plan) :
         LET t == plan[i].tableName
             n == Cardinality(RowsOf(srcColumns, t))
             actions == plan[i].actions
         IN /\ Len(actions) = 3
            /\ actions[1] = <<"DROP TABLE IF EXISTS public.">> \o t \o <<" CASCADE;">>
            /\ actions[2] =
                 <<"CREATE TABLE public.">> \o t \o <<" (\n  ">>
                 \o Join([k \in 1..n |-> createColumn(ColumnAt(t, k))], <<",\n  ">>)
                 \o <<"\n);">>
            /\ actions[3] = <<"-- Copy data from source">>

\* a plan of two tables, one of them with two columns or more
C13_Witness ==
  /\ dryStatus = 200
  /\ Len(plan) >= 2
  /\ \E i \in 1..Len(plan) : Cardinality(RowsOf(srcColumns, plan[i].tableName)) >= 2

(***************************************************************************)
(* Properties of the DDL, checked under SpecDdl.                           *)
(***************************************************************************)
\* C14: the DROP and CREATE actions the plan lists for a table are the DDL the
\* executor performs for it: the table is written with the same quoting and
\* the column clauses are the same (type, max length, NOT NULL, DEFAULT), in
\* the same order.
C14_PlanIsExecutorDdl ==
  (planDdl.built /\ execDdl.built) =>
    /\ planDdl.target = execDdl.target
    /\ planDdl.clauses = execDdl.clauses

\* C15: the executor's CREATE TABLE has one column clause per column, in
\* ascending ordinal position, each "name" type, then (maxLength) iff the
\* column has a max length, NOT NULL iff it is not nullable, DEFAULT expr iff
\* it has a default; and building it again gives the identical statement.
C15_ExecutorCreate ==
  /\ [](execDdl.built =>
          LET n == Cardinality(srcColumns)
          IN /\ Len(execDdl.clauses) = n
             /\ \A k \in 1..n :
                  LET col == ColumnAt(ddlTable, k)
                      clause == execDdl.clauses[k]
                      length == IF col.character_maximum_length # Null
                                THEN <<"(", col.character_maximum_length, ")">>
                                ELSE <<>>
                      notNull == IF col.is_nullable = "NO"
                                 THEN <<" NOT NULL">> ELSE <<>>
                      default == IF col.column_default # Null
                                 THEN <<" DEFAULT ", col.column_default>>
                                 ELSE <<>>
                  IN clause = <<"\"", col.column_name, "\"", " ", col.data_type>>
                              \o length \o notNull \o default
             /\ execDdl.create =
                  <<"CREATE TABLE ", "\"">> \o ddlTable \o <<"\"", " (">>
                  \o Join(execDdl.clauses, <<", ">>) \o <<")">>)
  /\ [][execDdl.built => execDdl' = execDdl]_vars

\* the executor built the CREATE of a table of two columns, the first with a
\* max length and a default and nullable, the second with none and NOT NULL
C15_Witness ==
  /\ execDdl.built
  /\ Cardinality(srcColumns) >= 2
  /\ LET a == ColumnAt(ddlTable, 1)
         b == ColumnAt(ddlTable, 2)
     IN /\ a.character_maximum_length # Null
        /\ a.column_default # Null
        /\ a.is_nullable = "YES"
        /\ b.character_maximum_length = Null
        /\ b.column_default = Null
        /\ b.is_nullable = "NO"

\* a text without its quote marks
Unquoted(text) == SelectSeq(text, LAMBDA piece : piece # "\"")

\* C18: the CREATE TABLE the script builds has the same column clauses as the
\* executor's (type, max length, NOT NULL and DEFAULT for every column), in
\* ordinal order.
C18_ScriptIsExecutorDdl ==
  (scriptDdl.built /\ execDdl.built) =>
    /\ Len(scriptDdl.clauses) = Len(execDdl.clauses)
    /\ \A k \in 1..Len(execDdl.clauses) :
         Unquoted(scriptDdl.clauses[k]) = Unquoted(execDdl.clauses[k])

(***************************************************************************)
(* Properties of the exported script's filter, checked under SpecFilters.  *)
(***************************************************************************)
\* C16: for every table name and every pattern, the regex of the script's
\* TABLE_PATTERN accepts the name if and only if matchesPattern returns true.
C16_ScriptFilterIsMatcher ==
  (mDone /\ sResult # "pending") => ((sResult = "accepted") <=> mResult)

(***************************************************************************)
(* Properties of the exported script's loop, checked under SpecScript.     *)
(***************************************************************************)
\* C17: an exception on one table rolls back only that table's destination
\* transaction and the loop goes on: what was committed for other tables is
\* never undone, and no table fails because an earlier table failed, be it
\* on the source or on the destination.
C17_ScriptPerTableIsolation ==
  /\ [][pc # "done" =>
          \A n \in DbTableNames : n # tableName => dest'[n] = dest[n]]_vars
  /\ [](\A i \in 1..Len(results) :
          results[i].error # "current transaction is aborted")

(***************************************************************************)
(* Properties of the dashboard, checked under SpecUi.                      *)
(***************************************************************************)
\* C19: the step migrating is never entered unless the dryrun step, which
\* shows the plan and the destructive-action warning, was visited after the
\* last analysis.
C19_PlanShownBeforeMigration ==
  step = "migrating" => planSeen

(***************************************************************************)
(* Properties of request validation, checked under SpecRequest.            *)
(***************************************************************************)
\* a field that is present and not empty
NonEmpty(v) == v \notin {"absent", ""}

\* the fields of a descriptor are strings where present
WellTyped(d) == \A f \in FieldNames : d[f] # "not a string"

\* a descriptor resolves to a DSN: a non-empty connection string, or all of
\* host, port, database, user and password non-empty
Resolvable(d) ==
  \/ NonEmpty(d.connectionString)
  \/ \A f \in FieldNames \ {"connectionString"} : NonEmpty(d[f])

\* a descriptor the service has to accept
Acceptable(d) == WellTyped(d) /\ Resolvable(d)

\* C20: a connection descriptor (an object whose fields, where present, are
\* strings) is accepted if and only if it has a non-empty connection string
\* or all of host, port, database, user and password are non-empty; a
\* request to connect, analyze, dry-run or generate-script whose source or
\* destination is not acceptable is answered 400 and no statement is sent to
\* any database.
C20_DescriptorValidation ==
  /\ pc # "received" =>
       (pc # "rejected" <=> (Acceptable(reqSource) /\ Acceptable(reqDestination)))
  /\ ~(Acceptable(reqSource) /\ Acceptable(reqDestination)) =>
       /\ trace = <<>>
       /\ pc # "received" => response = ErrorResponse(400)

\* a request was rejected whose source is acceptable and whose destination
\* has every field but the password
C20_Witness ==
  /\ pc = "rejected"
  /\ response = ErrorResponse(400)
  /\ trace = <<>>
  /\ Acceptable(reqSource)
  /\ reqSource = UriDescriptor
  /\ reqDestination.connectionString = ""
  /\ reqDestination.password = "absent"
  /\ \A f \in {"host", "port", "database", "user"} : reqDestination[f] = "text"

(***************************************************************************)
(* Connection errors of a migrate run, checked under Spec.                 *)
(***************************************************************************)
\* the statements the run sent to database db
SentTo(db) == {k \in DOMAIN trace : trace[k].db = db}

\* the run could not reach db: it sent statements to it and every one failed
Unreachable(db) ==
  /\ SentTo(db) # {}
  /\ \A k \in SentTo(db) : ~trace[k].ok

\* C21: a migrate run that could not reach its source or its destination
\* database ends with an error response, never with a successful response
\* whose tables each carry an error outcome.
C21_ConnectionErrorAborts ==
  (pc = "done" /\ (Unreachable("source") \/ Unreachable("dest")))
    => ~response.success

(***************************************************************************)
(* Properties of the handlers building SQL text from a table name,         *)
(* checked under SpecNames.                                                *)
(***************************************************************************)
\* the SQL the handler sent and the SQL it wrote into its answer
GeneratedSql ==
  dbSent \o (IF dbReq.endpoint = "backup" /\ dbStatus = 200 THEN dbBody ELSE <<>>)

\* C22: in the row fetch, the row mutation, the migration executor and the
\* backup dump, a table name is part of generated SQL text only if it matches
\* [A-Za-z_][A-Za-z0-9_]*.
C22_OnlyIdentifiersInSql ==
  \A k \in DOMAIN GeneratedSql :
    GeneratedSql[k].inText => isIdentifier(GeneratedSql[k].table)

(***************************************************************************)
(* Properties of the ad hoc query endpoint, checked under SpecQuery.       *)
(***************************************************************************)
\* s without its leading and trailing white space
Stripped(s) ==
  LET inner == {i \in DOMAIN s : s[i] \notin WhiteSpace}
  IN IF inner = {} THEN <<>>
     ELSE SubSeq(s, CHOOSE i \in inner : \A j \in inner : i <= j,
                    CHOOSE i \in inner : \A j \in inner : j <= i)

\* c and d are the same letter, whatever their case
SameLetter(c, d) ==
  \/ c = d
  \/ \E class \in {{"s", "S", "U017F"}, {"e", "E"}, {"l", "L"}, {"c", "C"}, {"t", "T"},
                   {"x", "X"}} : c \in class /\ d \in class

\* the query is a string whose text, stripped, starts with SELECT in any case
StartsWithSelect(query) ==
  /\ query.kind = "string"
  /\ Len(Stripped(query.text)) >= Len(SELECT)
  /\ \A i \in DOMAIN SELECT : SameLetter(Stripped(query.text)[i], SELECT[i])

\* the request names a database (source by default) that is configured
DatabaseChosen ==
  /\ dbReq.db \in {"absent", "", "source", "destination"}
  /\ dbReq.configured[IF dbReq.db = "destination" THEN "destination" ELSE "source"]

FailedInserts ==
  {j \in DOMAIN trace : trace[j].op = "INSERT" /\ ~trace[j].ok}

\* C24: while the rows of a table are being copied the destination table
\* holds exactly the rows inserted so far (a run cut off there leaves them),
\* and when the INSERT of the k-th row fails the table keeps exactly the k-1
\* rows inserted before it, no further row of it is inserted, and the outcome
\* recorded for the table is error.
C24_PartialCopyStays ==
  /\ pc = "insert" => dest[tableName].rows = SubSeq(data, 1, rowIdx - 1)
  /\ \A j \in FailedInserts :
       LET t == trace[j].table
           k == trace[j].n
       IN /\ dest[t].exists
          /\ dest[t].rows = SourceRows(k - 1)
          /\ \A i \in StatementsOf(t) : i <= j
          /\ \E i \in DOMAIN results :
               results[i].table = t /\ results[i].status = "error"
          /\ \A i \in DOMAIN results :
               results[i].table = t => results[i].status = "error"

\* the INSERT of the second row of a table failed after the first one went in
C24_Witness ==
  \E j \in FailedInserts :
    /\ trace[j].n = 2
    /\ dest[trace[j].table].rows = <<1>>

(***************************************************************************)
(* Properties of two concurrent runs, checked under SpecConcurrent.        *)
(***************************************************************************)
\* the statements request r has sent
SentBy(r) == {k \in DOMAIN trace : trace[k].db = r}

\* C25: two executor runs on the same destination table are not coordinated:
\* whatever the other run is doing, a run that is not finished can send its
\* next statement; a CREATE fails only on a table the other run created after
\* this run's DROP and an INSERT only on a table the other run dropped after
\* this run's CREATE; and the rows left in the table can be more than one run
\* alone leaves, up to the rows of both.
C25_Uncoordinated ==
  /\ \A r \in Runs : runs[r].pc # "done" => ENABLED RunStep(r)
  /\ \A r \in Runs : \A k \in SentBy(r) :
       ~trace[k].ok =>
         \E j, i \in 1..(k - 1) :
           /\ j < i
           /\ trace[j].db = r
           /\ trace[j].op = (IF trace[k].op = "CREATE" THEN "DROP" ELSE "CREATE")
           /\ trace[i].db # r
           /\ trace[i].op = (IF trace[k].op = "CREATE" THEN "CREATE" ELSE "DROP")
  /\ dest[Orders].exists => Len(dest[Orders].rows) <= 2 * Len(data)

\* both runs answered success and the table holds every source row twice
C25_Witness ==
  /\ \A r \in Runs : runs[r].pc = "done" /\ runs[r].outcome = "success"
  /\ Len(dest[Orders].rows) = 2 * Len(data)

\* one run's INSERT failed on a table the other run had dropped
InsertFailedOnDroppedTable ==
  \E r \in Runs : \E k \in SentBy(r) : trace[k].op = "INSERT" /\ ~trace[k].ok

(***************************************************************************)
(* Properties of the table structure endpoint, checked under               *)
(* SpecStructure.                                                          *)
(***************************************************************************)
\* the columns of the PRIMARY KEY constraint of table t
PrimaryKeyColumns(t) ==
  UNION {c.columns : c \in {k \in dbCatalog : k.type = "PRIMARY KEY" /\ k.table = t}}

\* C26: the structure lists every column of the table once, in ordinal order,
\* flagged isPrimaryKey iff it is a column of the table's PRIMARY KEY
\* constraint, and primaryKeys lists exactly the flagged columns in ordinal
\* order.
C26_PrimaryKeyFlags ==
  dbStatus = 200 =>
    LET t == dbReq.tableName
        structure == dbBody[1]
        IsKey(col) == col \in PrimaryKeyColumns(t)
    IN /\ [i \in DOMAIN structure.columns |-> structure.columns[i].name]
            = StructureColumns(t)
       /\ \A i \in DOMAIN structure.columns :
            structure.columns[i].isPrimaryKey
              <=> IsKey(structure.columns[i].name)
       /\ structure.primaryKeys = SelectSeq(StructureColumns(t), IsKey)

(***************************************************************************)
(* Properties of formatBytes, checked under SpecFormat.                    *)
(***************************************************************************)
\* text ends with a blank and one of the five units
EndsWithUnit(text, unit) ==
  /\ Len(text) > Len(unit)
  /\ SubSeq(text, Len(text) - Len(unit), Len(text)) = <<" ">> \o unit

\* the number of hundredths nearest to the count divided by 1024^exp, a count
\* half-way between two of them going up
NearestHundredths(bytes) ==
  LET scaled == (bytes.hi * 1024 + bytes.lo) * 100
  IN CHOOSE h \in (bytes.hi * 100)..(bytes.hi * 100 + 100) :
       h * 1024 - 512 <= scaled /\ scaled < h * 1024 + 512

\* C27: the size answered for a byte count is "0 Bytes" for 0 and otherwise the
\* count divided by 1024^exp, exp chosen so that the quotient is at least 1
\* and below 1024, rounded to hundredths and written without trailing zeros,
\* followed by a blank and one of Bytes, KB, MB, GB, TB: 1024 gives "1 KB"
\* and 1536 gives "1.5 KB".
C27_FormatBytes ==
  dbStatus = 200 =>
    LET bytes == dbReq.size_bytes
        text == dbBody[1]
    IN /\ \E i \in DOMAIN sizes : EndsWithUnit(text, sizes[i])
       /\ bytes = ZeroBytes => text = <<"0", " ", "B", "y", "t", "e", "s">>
       /\ bytes = Bytes(1, 1, 0) => text = <<"1", " ", "K", "B">>
       /\ bytes = Bytes(1, 1, 512) => text = <<"1", ".", "5", " ", "K", "B">>
       /\ (bytes # ZeroBytes /\ bytes.exp + 1 \in DOMAIN sizes) =>
            text = numberText(NearestHundredths(bytes)) \o <<" ">>
                     \o sizes[bytes.exp + 1]

(***************************************************************************)
(* Properties of the three table listings, checked under SpecSources.      *)
(***************************************************************************)
\* C28: for the same source database and pattern, analyze, dry run and
\* migrate work on the same set of tables.
C28_SameTables ==
  \A i, j \in DOMAIN dbBody : Range(dbBody[i].tables) = Range(dbBody[j].tables)

\* the same for databases whose relations are all base tables with a column
PlainTablesAgree ==
  (\A n \in DOMAIN dbCatalog : dbCatalog[n] = Relation("BASE TABLE", 1))
    => C28_SameTables

\* C29: the dashboard shows the step complete only after the server's
\* migration executor answered this migration with its outcome list, with the
\* environment-configured databases and with manually entered connections.
C29_CompleteAfterExecutor ==
  step = "complete" => response.success

(***************************************************************************)
(* Properties of the row mutation endpoint, checked under SpecRow.         *)
(***************************************************************************)
\* the INSERT, UPDATE and DELETE statements the request sent
WritesSent ==
  {k \in DOMAIN dbSent : dbSent[k].op \in {"INSERT", "UPDATE", "DELETE"}}

\* c is a column of the requested table and matches the identifier grammar
ExistingIdentifier(c) ==
  /\ dbReq.tableName = dbCatalog.table
  /\ c \in Range(dbCatalog.columns)
  /\ isIdentifier(c)

\* record is missing, empty or without a key that is a valid column
NoValidColumn(record) ==
  \/ ~record.defined
  \/ \A i \in DOMAIN record.entries : ~ExistingIdentifier(record.entries[i].key)

RowUpdateSent ==
  /\ dbStatus = 200
  /\ \E k \in WritesSent : dbSent[k].op = "UPDATE"
  /\ Ghost \in Range(Keys(dbReq.data.entries))
  /\ Dashed \in Range(Keys(dbReq.where.entries))

=============================================================================
